---- MODULE Spec2Model ----
(***************************************************************************)
(* Request-admission gate of the fastify MCP server boilerplate:           *)
(* rate limiter, input sanitizer, audit log, origin guard, auth guard and  *)
(* the onRequest hook chain that composes them.                            *)
(***************************************************************************)
EXTENDS Integers, Sequences, FiniteSets, TLC

VARIABLES
  now,            \* Date.now(), in ms
  rateLimitMap,   \* security.ts rateLimitMap: identifier -> {count, resetTime}
  securityLog,    \* security.ts securityLog: array of SecurityEvent
  lastIndex,      \* security.ts DANGEROUS_PATTERNS: the lastIndex of each global regex
  config,         \* SecurityConfig handed to registerSecurityMiddleware
  req,            \* the requests in flight: inputs, reply and position in the hook chain
  draft,          \* the string a caller is putting together for its next call
  proc,           \* index.ts: the environment, the phase and the exit code of the process
  snapshot,       \* the array a caller got from getSecurityLog and holds on to
  hist,           \* history: per identifier, the checkRateLimit calls of its current window
  last,           \* history: the last operation that ran, its arguments and its result
  steps           \* history: number of operations run so far

vars ==
  <<now, rateLimitMap, securityLog, lastIndex, config, req, draft, proc, snapshot,
    hist, last, steps>>

----------------------------------------------------------------------------
(* Bounds of the model *)

MaxTicks == 3          \* the clock advances at most this many half windows
MaxRequests == 1       \* requests per behaviour, one at a time
MaxConcurrent == 3     \* requests per behaviour, processed concurrently
MaxInput == 3          \* longest string handed to sanitizeInput
MaxSanitize == 2       \* sanitizeInput calls per behaviour
MaxWindows == 1        \* whole windows that pass while the gate runs
MaxAppends == 1002     \* logSecurityEvent calls per behaviour of the audit specification
MaxEndToEnd == 102     \* requests per behaviour of the end-to-end specification
MaxCalls == 4          \* operations per behaviour of the rate-limiter specification
MaxServed == 2         \* requests the started process answers
MaxSnapshot == 5       \* operations per behaviour of the snapshot specification
MaxTool == 3           \* tool calls and requests per behaviour of the tool specification
MaxUrl == 1            \* validateUrl calls per behaviour
MaxThrottle == 52      \* tool calls per behaviour of the throttle specification
MaxClient == 2         \* requests per behaviour of the client identifier specification

(* Program constants *)

WindowMs == 60000      \* window passed by both callers of checkRateLimit
MaxLog == 1000         \* capacity of securityLog
RetryAfter == 60       \* retryAfter of the 429 body
DefaultMaxRequests == 100  \* default of MAX_REQUESTS_PER_MINUTE
DefaultMaxLength == 1000   \* default maxLength of sanitizeInput

TickMs == WindowMs \div 2

\* Strings the code takes apart are sequences of one-character strings;
\* an optional value is << >> (undefined) or <<v>>.
None == << >>
Some(v) == <<v>>

IpA == <<"1", ".", "1">>
IpB == <<"2", ".", "2">>
ClientIds == {IpA, IpB}
Limits == {0, 1, 2}
Windows == {WindowMs}

NoOp == [op |-> "none"]

\* the process once index.ts has run to the end of start(): it listens
Serving ==
  [phase |-> "listening", env |-> << >>, settings |-> << >>, exitCode |-> 0,
   served |-> 0]

----------------------------------------------------------------------------
(* security.ts: checkRateLimit *)

Expired(map, id, t) == id \notin DOMAIN map \/ t > map[id].resetTime

MapSet(map, id, e) == [k \in DOMAIN map \cup {id} |-> IF k = id THEN e ELSE map[k]]

\* rateLimitMap.get(identifier): << >> when there is no entry
EntryOf(map, id) == IF id \in DOMAIN map THEN <<map[id]>> ELSE << >>

\* a limiter that denies only once the count is above the limit
CheckAllowedOffByOne(map, id, maxRequests, t) ==
  IF Expired(map, id, t) THEN TRUE
  ELSE IF map[id].count > maxRequests THEN FALSE
  ELSE TRUE

\* the value checkRateLimit returns
CheckAllowed(map, id, maxRequests, t) ==
  IF Expired(map, id, t) THEN TRUE
  ELSE IF map[id].count >= maxRequests THEN FALSE
  ELSE TRUE

\* a limiter whose denied calls push the reset time forward
CheckMapLockout(map, id, maxRequests, windowMs, t) ==
  IF Expired(map, id, t)
    THEN MapSet(map, id, [count |-> 1, resetTime |-> t + windowMs])
  ELSE IF map[id].count >= maxRequests
    THEN MapSet(map, id, [count |-> map[id].count, resetTime |-> t + windowMs])
  ELSE MapSet(map, id, [count |-> map[id].count + 1, resetTime |-> map[id].resetTime])

\* a limiter that reads the count and never writes the incremented count back
CheckMapLostUpdate(map, id, maxRequests, windowMs, t) ==
  IF Expired(map, id, t)
    THEN MapSet(map, id, [count |-> 1, resetTime |-> t + windowMs])
  ELSE map

\* a limiter whose denied calls are counted as well
CheckMapCountsDenied(map, id, maxRequests, windowMs, t) ==
  IF Expired(map, id, t)
    THEN MapSet(map, id, [count |-> 1, resetTime |-> t + windowMs])
  ELSE MapSet(map, id, [count |-> map[id].count + 1, resetTime |-> map[id].resetTime])

\* a limiter whose admitted calls start the count again
CheckMapRestart(map, id, maxRequests, windowMs, t) ==
  IF Expired(map, id, t)
    THEN MapSet(map, id, [count |-> 1, resetTime |-> t + windowMs])
  ELSE IF map[id].count >= maxRequests THEN map
  ELSE MapSet(map, id, [count |-> 1, resetTime |-> map[id].resetTime])

\* the map checkRateLimit leaves behind
CheckMap(map, id, maxRequests, windowMs, t) ==
  IF Expired(map, id, t)
    THEN MapSet(map, id, [count |-> 1, resetTime |-> t + windowMs])
  ELSE IF map[id].count >= maxRequests THEN map
  ELSE MapSet(map, id, [count |-> map[id].count + 1, resetTime |-> map[id].resetTime])

\* history of the calls made in the current window of each identifier
HistAfter(h, map, id, maxRequests, t) ==
  LET rec == [max |-> maxRequests, ok |-> CheckAllowed(map, id, maxRequests, t),
              seen |-> IF Expired(map, id, t) THEN 0 ELSE map[id].count]
  IN MapSet(h, id, IF Expired(map, id, t) \/ id \notin DOMAIN h
                     THEN <<rec>> ELSE Append(h[id], rec))

HistOf(h, id) == IF id \in DOMAIN h THEN h[id] ELSE << >>

(* security.ts: cleanupRateLimit *)
\* a sweep that removes every entry
CleanupMapAll(map, t) == [k \in {} |-> map[k]]

\* a sweep that also removes the entries whose reset time is now
CleanupMapAtReset(map, t) ==
  [k \in {j \in DOMAIN map : ~(t >= map[j].resetTime)} |-> map[k]]

CleanupMap(map, t) ==
  [k \in {j \in DOMAIN map : ~(t > map[j].resetTime)} |-> map[k]]

----------------------------------------------------------------------------
(* Strings *)

StartsWith(s, prefix) ==
  Len(s) >= Len(prefix) /\ SubSeq(s, 1, Len(prefix)) = prefix

\* s.slice(n)
Slice(s, n) == SubSeq(s, n + 1, Len(s))

IsSpace(c) == c \in {" ", "\t", "\n"}

RECURSIVE TrimStart(_)
TrimStart(s) ==
  IF s # << >> /\ IsSpace(Head(s)) THEN TrimStart(Tail(s)) ELSE s

RECURSIVE TrimEnd(_)
TrimEnd(s) ==
  IF s # << >> /\ IsSpace(s[Len(s)]) THEN TrimEnd(SubSeq(s, 1, Len(s) - 1)) ELSE s

Trim(s) == TrimEnd(TrimStart(s))

\* s.split(",")[0]
RECURSIVE FirstField(_)
FirstField(s) ==
  IF s = << >> \/ Head(s) = "," THEN << >> ELSE <<Head(s)>> \o FirstField(Tail(s))

McpPrefix == <<"/", "m", "c", "p">>
BearerPrefix == <<"B", "e", "a", "r", "e", "r", " ">>
Unknown == <<"u", "n", "k", "n", "o", "w", "n">>

----------------------------------------------------------------------------
(* security.ts: DANGEROUS_PATTERNS and sanitizeInput *)

\* the backquote is written "backquote"
ShellMeta == {";", "&", "|", "backquote", "$", "(", ")", "{", "}", "[", "]", "\\"}

Letters ==
  [a |-> "A", b |-> "B", c |-> "C", d |-> "D", e |-> "E", f |-> "F", g |-> "G",
   h |-> "H", i |-> "I", j |-> "J", k |-> "K", l |-> "L", m |-> "M", n |-> "N",
   o |-> "O", p |-> "P", q |-> "Q", r |-> "R", s |-> "S", t |-> "T", u |-> "U",
   v |-> "V", w |-> "W", x |-> "X", y |-> "Y", z |-> "Z"]

Lower(c) ==
  IF \E l \in DOMAIN Letters : Letters[l] = c
    THEN CHOOSE l \in DOMAIN Letters : Letters[l] = c
    ELSE c

Digits == {"0", "1", "2", "3", "4", "5", "6", "7", "8", "9"}

\* \w
IsWord(c) == Lower(c) \in DOMAIN Letters \/ c \in Digits \/ c = "_"

FunctionNames ==
  { <<"e", "v", "a", "l">>, <<"e", "x", "e", "c">>, <<"s", "y", "s", "t", "e", "m">>,
    <<"s", "p", "a", "w", "n">>, <<"f", "o", "r", "k">> }

Commands ==
  { <<"r", "m">>, <<"d", "e", "l">>, <<"f", "o", "r", "m", "a", "t">>,
    <<"s", "h", "u", "t", "d", "o", "w", "n">>, <<"r", "e", "b", "o", "o", "t">> }

\* /\b(w1|w2|...)\b/i at the 0-based index i of s: the length matched, 0 for none
WordMatch(words, s, i) ==
  LET fits(w) ==
        /\ i + Len(w) <= Len(s)
        /\ \A j \in 1..Len(w) : Lower(s[i + j]) = w[j]
        /\ (i = 0 \/ ~IsWord(s[i]))
        /\ (i + Len(w) = Len(s) \/ ~IsWord(s[i + Len(w) + 1]))
  IN IF \E w \in words : fits(w)
       THEN Len(CHOOSE w \in words : fits(w))
       ELSE 0

\* pattern k of DANGEROUS_PATTERNS at the 0-based index i of s: the length
\* matched, 0 for none
MatchLen(k, s, i) ==
  CASE k = 1 -> IF s[i + 1] \in ShellMeta THEN 1 ELSE 0
    [] k = 2 -> WordMatch(FunctionNames, s, i)
    [] k = 3 -> WordMatch(Commands, s, i)
    [] k = 4 -> IF /\ i + 3 <= Len(s)
                   /\ s[i + 1] = "." /\ s[i + 2] = "."
                   /\ s[i + 3] \in {"/", "\\"}
                  THEN 3 ELSE 0
    [] k = 5 -> IF s[i + 1] \in {"<", ">"} THEN 1 ELSE 0

MatchStarts(k, s, from) == {i \in from..(Len(s) - 1) : MatchLen(k, s, i) > 0}

SetMin(S) == CHOOSE x \in S : \A y \in S : x <= y

\* a test that always searches from the start of the string
RegexTestStateless(k, s, li) ==
  IF MatchStarts(k, s, 0) = {}
    THEN [found |-> FALSE, lastIndex |-> 0]
    ELSE [found |-> TRUE, lastIndex |-> 0]

\* pattern.test(s) of a regex with the g flag whose lastIndex is li: the
\* search starts at li, a match leaves lastIndex at its end, a failure at 0
RegexTest(k, s, li) ==
  IF li > Len(s) \/ MatchStarts(k, s, li) = {}
    THEN [found |-> FALSE, lastIndex |-> 0]
    ELSE LET i == SetMin(MatchStarts(k, s, li))
         IN [found |-> TRUE, lastIndex |-> i + MatchLen(k, s, i)]

\* the for loop over DANGEROUS_PATTERNS from pattern k on: whether a pattern
\* matched, and the lastIndex of every pattern afterwards
RECURSIVE TestPatterns(_, _, _)
TestPatterns(k, s, li) ==
  IF k > 5 THEN [hit |-> FALSE, lastIndex |-> li]
  ELSE LET t == RegexTest(k, s, li[k])
           li2 == [li EXCEPT ![k] = t.lastIndex]
       IN IF t.found THEN [hit |-> TRUE, lastIndex |-> li2]
          ELSE TestPatterns(k + 1, s, li2)

\* a replace that removes nothing
StripUnsafeKeepsAll(s) == s

\* input.replace(/[^\w\s.-]/g, "")
RECURSIVE StripUnsafe(_)
StripUnsafe(s) ==
  IF s = << >> THEN << >>
  ELSE IF IsWord(Head(s)) \/ IsSpace(Head(s)) \/ Head(s) \in {".", "-"}
    THEN <<Head(s)>> \o StripUnsafe(Tail(s))
  ELSE StripUnsafe(Tail(s))

\* an argument of sanitizeInput: a string, or a value of another type
Str(s) == [type |-> "string", text |-> s]
NotAString == [type |-> "number", text |-> << >>]

\* a sanitizer that tests the patterns before it looks at the length
SanitizeInputPatternsFirst(input, maxLength, li) ==
  IF input.type # "string"
    THEN [error |-> "Input must be a string", value |-> << >>, lastIndex |-> li]
  ELSE LET t == TestPatterns(1, input.text, li)
       IN IF t.hit
            THEN [error |-> "Input contains potentially dangerous characters or commands",
                  value |-> << >>, lastIndex |-> t.lastIndex]
          ELSE IF Len(input.text) > maxLength
            THEN [error |-> "Input too long", value |-> << >>, lastIndex |-> t.lastIndex]
          ELSE [error |-> "", value |-> Trim(StripUnsafe(input.text)),
                lastIndex |-> t.lastIndex]

\* sanitizeInput(input, maxLength) with the patterns' lastIndex at li: the
\* error thrown ("" for none), the value returned and the lastIndex left
SanitizeInput(input, maxLength, li) ==
  IF input.type # "string"
    THEN [error |-> "Input must be a string", value |-> << >>, lastIndex |-> li]
  ELSE IF Len(input.text) > maxLength
    THEN [error |-> "Input too long", value |-> << >>, lastIndex |-> li]
  ELSE LET t == TestPatterns(1, input.text, li)
       IN IF t.hit
            THEN [error |-> "Input contains potentially dangerous characters or commands",
                  value |-> << >>, lastIndex |-> t.lastIndex]
            ELSE [error |-> "", value |-> Trim(StripUnsafe(input.text)),
                  lastIndex |-> t.lastIndex]

----------------------------------------------------------------------------
(* security.ts: logSecurityEvent *)

\* a log whose append writes over the newest event, as two appends that read
\* the same length would
LogSecurityEventOverwrite(log, event, t) ==
  IF log = << >> THEN <<[event EXCEPT !.timestamp = t]>>
  ELSE [log EXCEPT ![Len(log)] = [event EXCEPT !.timestamp = t]]

\* a log that never evicts
LogSecurityEventNoEvict(log, event, t) == Append(log, [event EXCEPT !.timestamp = t])

LogSecurityEvent(log, event, t) ==
  LET pushed == Append(log, [event EXCEPT !.timestamp = t])
  IN IF Len(pushed) > MaxLog THEN Tail(pushed) ELSE pushed

Event(kind, identifier, details, severity) ==
  [event |-> kind, identifier |-> identifier, details |-> details,
   severity |-> severity, timestamp |-> 0]

\* a stage that logs its event twice
LogEventsTwice(log, events, t) ==
  IF events = << >> THEN log
  ELSE LogSecurityEvent(LogSecurityEvent(log, events[1], t), events[1], t)

\* a stage logs no event (<< >>) or one (<<e>>)
LogEvents(log, events, t) ==
  IF events = << >> THEN log ELSE LogSecurityEvent(log, events[1], t)

----------------------------------------------------------------------------
(* middleware.ts: the request, the reply and the stages of the gate *)

Slots == {"r1", "r2"}

IdleRequest ==
  [pc |-> "idle", url |-> << >>, origin |-> None, authorization |-> None,
   forwarded |-> None, realIp |-> None, ip |-> None,
   headers |-> << >>, status |-> 0, body |-> << >>, sent |-> FALSE, sends |-> 0,
   logged |-> FALSE, trace |-> << >>]

NoConfig ==
  [enableAuth |-> FALSE, apiKey |-> None, enableRateLimit |-> FALSE,
   maxRequestsPerMinute |-> 0, enableRequestLogging |-> FALSE, trustedOrigins |-> {}]

\* reply.header(name, value)
ReplyHeader(q, name, value) == [q EXCEPT !.headers = MapSet(@, name, value)]

\* reply.status(code).send(body)
ReplySend(q, code, body) ==
  [q EXCEPT !.status = code, !.body = body, !.sent = TRUE, !.sends = @ + 1]

\* a resolution that asks X-Real-IP before X-Forwarded-For
GetClientIPRealIpFirst(q) ==
  IF q.realIp # None THEN q.realIp[1]
  ELSE IF q.forwarded # None THEN Trim(FirstField(q.forwarded[1]))
  ELSE IF q.ip # None THEN q.ip[1]
  ELSE Unknown

GetClientIP(q) ==
  IF q.forwarded # None THEN Trim(FirstField(q.forwarded[1]))
  ELSE IF q.realIp # None THEN q.realIp[1]
  ELSE IF q.ip # None THEN q.ip[1]
  ELSE Unknown

\* an auth check that lets any bearer token through
AuthStatusAnyToken(cfg, q) ==
  IF ~cfg.enableAuth \/ ~StartsWith(q.url, McpPrefix) THEN 0
  ELSE IF q.authorization = None \/ q.authorization[1] = << >>
          \/ ~StartsWith(q.authorization[1], BearerPrefix) THEN 401
  ELSE 0

\* authMiddleware: 0 when the request passes, else the status it sends
AuthStatus(cfg, q) ==
  IF ~cfg.enableAuth \/ ~StartsWith(q.url, McpPrefix) THEN 0
  ELSE IF q.authorization = None \/ q.authorization[1] = << >>
          \/ ~StartsWith(q.authorization[1], BearerPrefix) THEN 401
  ELSE IF Some(Slice(q.authorization[1], 7)) # cfg.apiKey THEN 403
  ELSE 0

\* an auth stage that logs every rejection as medium
AuthEventsAllMedium(cfg, q) ==
  CASE AuthStatus(cfg, q) = 401 ->
         <<Event("authentication_failed", GetClientIP(q),
                 [url |-> q.url, reason |-> "missing_or_invalid_header"], "medium")>>
    [] AuthStatus(cfg, q) = 403 ->
         <<Event("authentication_failed", GetClientIP(q),
                 [url |-> q.url, reason |-> "invalid_token"], "medium")>>
    [] OTHER -> << >>

AuthEvents(cfg, q) ==
  CASE AuthStatus(cfg, q) = 401 ->
         <<Event("authentication_failed", GetClientIP(q),
                 [url |-> q.url, reason |-> "missing_or_invalid_header"], "medium")>>
    [] AuthStatus(cfg, q) = 403 ->
         <<Event("authentication_failed", GetClientIP(q),
                 [url |-> q.url, reason |-> "invalid_token"], "high")>>
    [] OTHER -> << >>

AuthReply(cfg, q) ==
  CASE AuthStatus(cfg, q) = 401 ->
         ReplySend(q, 401, [error |-> "Unauthorized",
                            message |-> "Missing or invalid authorization header"])
    [] AuthStatus(cfg, q) = 403 ->
         ReplySend(q, 403, [error |-> "Forbidden", message |-> "Invalid API key"])
    [] OTHER -> q

\* rateLimitMiddleware
RateChecked(cfg) == cfg.enableRateLimit

RateDenied(cfg, q, map, t) ==
  /\ RateChecked(cfg)
  /\ ~CheckAllowed(map, GetClientIP(q), cfg.maxRequestsPerMinute, t)

\* a limiter stage that counts the requests under /mcp only
RateMapProtectedOnly(cfg, q, map, t) ==
  IF RateChecked(cfg) /\ StartsWith(q.url, McpPrefix)
    THEN CheckMap(map, GetClientIP(q), cfg.maxRequestsPerMinute, WindowMs, t)
    ELSE map

RateMap(cfg, q, map, t) ==
  IF RateChecked(cfg)
    THEN CheckMap(map, GetClientIP(q), cfg.maxRequestsPerMinute, WindowMs, t)
    ELSE map

RateHist(cfg, q, h, map, t) ==
  IF RateChecked(cfg)
    THEN HistAfter(h, map, GetClientIP(q), cfg.maxRequestsPerMinute, t)
    ELSE h

RateEvents(cfg, q, map, t) ==
  IF RateDenied(cfg, q, map, t)
    THEN <<Event("rate_limit_exceeded", GetClientIP(q), [url |-> q.url], "medium")>>
    ELSE << >>

RateReply(cfg, q, map, t) ==
  IF RateDenied(cfg, q, map, t)
    THEN ReplySend(q, 429, [error |-> "Too Many Requests",
                            message |-> "Rate limit exceeded. Please try again later.",
                            retryAfter |-> RetryAfter])
    ELSE q

\* an origin check that does not ask whether any origin is trusted
OriginCheckedAlways(cfg, q) ==
  /\ StartsWith(q.url, McpPrefix)
  /\ q.origin # None /\ q.origin[1] # << >>

\* corsMiddleware
OriginChecked(cfg, q) ==
  /\ StartsWith(q.url, McpPrefix)
  /\ q.origin # None /\ q.origin[1] # << >>
  /\ cfg.trustedOrigins # {}

\* an origin check that compares nothing
CorsRejectsNever(cfg, q) == FALSE

CorsRejects(cfg, q) == OriginChecked(cfg, q) /\ q.origin[1] \notin cfg.trustedOrigins

CorsEvents(cfg, q) ==
  IF CorsRejects(cfg, q)
    THEN <<Event("untrusted_origin_blocked", GetClientIP(q),
                 [origin |-> q.origin[1], url |-> q.url], "medium")>>
    ELSE << >>

CorsCommon(q) ==
  ReplyHeader(ReplyHeader(ReplyHeader(q,
    "Access-Control-Allow-Credentials", "true"),
    "Access-Control-Allow-Methods", "GET, POST, OPTIONS"),
    "Access-Control-Allow-Headers", "Content-Type, Authorization")

\* an origin guard that turns away a request without an Origin header
CorsReplyRequiresOrigin(cfg, q) ==
  IF ~StartsWith(q.url, McpPrefix) THEN q
  ELSE IF CorsRejects(cfg, q) \/ (q.origin = None /\ cfg.trustedOrigins # {})
    THEN ReplySend(q, 403, [error |-> "Forbidden", message |-> "Origin not allowed"])
  ELSE IF OriginChecked(cfg, q)
    THEN CorsCommon(ReplyHeader(q, "Access-Control-Allow-Origin", q.origin[1]))
  ELSE CorsCommon(q)

CorsReply(cfg, q) ==
  IF ~StartsWith(q.url, McpPrefix) THEN q
  ELSE IF CorsRejects(cfg, q)
    THEN ReplySend(q, 403, [error |-> "Forbidden", message |-> "Origin not allowed"])
  ELSE IF OriginChecked(cfg, q)
    THEN CorsCommon(ReplyHeader(q, "Access-Control-Allow-Origin", q.origin[1]))
  ELSE CorsCommon(q)

\* requestLoggingMiddleware
LoggingReply(cfg, q) ==
  IF cfg.enableRequestLogging THEN [q EXCEPT !.logged = TRUE] ELSE q

\* cspMiddleware
CspPolicy ==
  "default-src 'self'; script-src 'self'; style-src 'self' 'unsafe-inline'; img-src 'self' data:; font-src 'self'; connect-src 'self'; frame-ancestors 'none';"

\* security headers without X-Frame-Options
CspReplyNoFrame(q) ==
  ReplyHeader(ReplyHeader(ReplyHeader(ReplyHeader(q,
    "Content-Security-Policy", CspPolicy),
    "X-Content-Type-Options", "nosniff"),
    "X-XSS-Protection", "1; mode=block"),
    "Referrer-Policy", "strict-origin-when-cross-origin")

CspReply(q) ==
  ReplyHeader(ReplyHeader(ReplyHeader(ReplyHeader(ReplyHeader(q,
    "Content-Security-Policy", CspPolicy),
    "X-Content-Type-Options", "nosniff"),
    "X-Frame-Options", "DENY"),
    "X-XSS-Protection", "1; mode=block"),
    "Referrer-Policy", "strict-origin-when-cross-origin")

\* a chain that checks the credentials before it counts the request
HookOrderAuthFirst == <<"csp", "log", "cors", "auth", "rate">>

\* a chain that counts the request before it checks the origin
HookOrderRateFirst == <<"csp", "log", "rate", "cors", "auth">>

\* registerSecurityMiddleware: the onRequest hooks in the order they are added
HookOrder == <<"csp", "log", "cors", "rate", "auth">>

\* a hook runner that goes on after the reply was sent
NextStageNoStop(stage, sent) ==
  LET i == CHOOSE k \in 1..Len(HookOrder) : HookOrder[k] = stage
  IN IF i = Len(HookOrder) THEN "dispatch" ELSE HookOrder[i + 1]

\* the stage the hook runner enters after `stage` returned: none once the reply
\* is sent, the route handler after the last hook
NextStage(stage, sent) ==
  IF sent THEN "done"
  ELSE LET i == CHOOSE k \in 1..Len(HookOrder) : HookOrder[k] = stage
       IN IF i = Len(HookOrder) THEN "dispatch" ELSE HookOrder[i + 1]

Advance(q, stage) ==
  [q EXCEPT !.trace = Append(@, stage), !.pc = NextStage(stage, q.sent)]

----------------------------------------------------------------------------
(* The rate limiter on its own: calls, the periodic sweep and the clock *)

InitRL ==
  /\ now = 0
  /\ rateLimitMap = << >>
  /\ securityLog = << >>
  /\ lastIndex = [k \in 1..5 |-> 0]
  /\ config = NoConfig
  /\ req = [r \in Slots |-> IdleRequest]
  /\ draft = << >>
  /\ proc = Serving
  /\ snapshot = << >>
  /\ hist = << >>
  /\ last = NoOp
  /\ steps = 0

RLCall(id, maxRequests, windowMs) ==
  /\ steps < MaxCalls
  /\ rateLimitMap' = CheckMap(rateLimitMap, id, maxRequests, windowMs, now)
  /\ hist' = HistAfter(hist, rateLimitMap, id, maxRequests, now)
  /\ last' = [op |-> "checkRateLimit", id |-> id, max |-> maxRequests,
              windowMs |-> windowMs, at |-> now,
              before |-> EntryOf(rateLimitMap, id), beforeHist |-> HistOf(hist, id),
              result |-> CheckAllowed(rateLimitMap, id, maxRequests, now)]
  /\ steps' = steps + 1
  /\ UNCHANGED <<proc, snapshot, lastIndex, draft, now, securityLog, config, req>>

RLCleanup ==
  /\ steps < MaxCalls
  /\ rateLimitMap' = CleanupMap(rateLimitMap, now)
  /\ last' = [op |-> "cleanupRateLimit", at |-> now]
  /\ steps' = steps + 1
  /\ UNCHANGED <<proc, snapshot, lastIndex, draft, now, securityLog, config, req, hist>>

\* half a window passes, up to the time `until`
Tick(until) ==
  /\ now + TickMs <= until
  /\ now' = now + TickMs
  /\ UNCHANGED <<proc, snapshot, lastIndex, draft, rateLimitMap, securityLog, config, req, hist, last, steps>>

NextRL ==
  \/ \E id \in ClientIds, m \in Limits, w \in Windows : RLCall(id, m, w)
  \/ RLCleanup
  \/ Tick(MaxTicks * TickMs)

SpecRL == InitRL /\ [][NextRL]_vars

----------------------------------------------------------------------------
(* The gate: requests run through the hook chain one stage at a time, and   *)
(* the stages of different requests interleave                              *)

ApiKey == <<"k", "1">>
WrongKey == <<"k", "2">>
OriginA == <<"a", ".", "c">>
OriginEvil == <<"e", ".", "c">>
Health == <<"/", "h", "e", "a", "l", "t", "h">>

Urls == {McpPrefix, Health}
Origins == {None, Some(<< >>), Some(OriginA), Some(OriginEvil)}
Authorizations ==
  {None, Some(BearerPrefix \o ApiKey), Some(BearerPrefix \o WrongKey),
   Some(<<"B", "a", "s", "i", "c">>)}
Forwardeds == {None, Some(IpB \o <<",", " ">> \o IpA)}

\* a request as it enters the chain, from the connection address IpA
Request(url, origin, authorization, forwarded) ==
  [IdleRequest EXCEPT !.pc = "csp", !.url = url, !.origin = origin,
                      !.authorization = authorization,
                      !.forwarded = forwarded, !.ip = Some(IpA)]

Requests ==
  {Request(u, o, a, f) :
     u \in Urls, o \in Origins, a \in Authorizations, f \in Forwardeds}

Configs ==
  [enableAuth : BOOLEAN, apiKey : {None, Some(ApiKey)},
   enableRateLimit : BOOLEAN, maxRequestsPerMinute : Limits,
   enableRequestLogging : BOOLEAN, trustedOrigins : {{}, {OriginA}}]

\* the configurations of the one-at-a-time specification: the settings a
\* disabled stage does not read are left at one value
GateConfigs ==
  {c \in Configs :
     /\ c.enableAuth \/ c.apiKey = None
     /\ c.maxRequestsPerMinute \in {0, 1}
     /\ c.enableRateLimit \/ c.maxRequestsPerMinute = 1}

InitGate ==
  /\ now = 0
  /\ rateLimitMap = << >>
  /\ securityLog = << >>
  /\ lastIndex = [k \in 1..5 |-> 0]
  /\ config \in GateConfigs
  /\ req = [r \in Slots |-> IdleRequest]
  /\ draft = << >>
  /\ proc = Serving
  /\ snapshot = << >>
  /\ hist = << >>
  /\ last = NoOp
  /\ steps = 0

Arrive(r, q, limit) ==
  /\ req[r].pc \in {"idle", "done"}
  /\ steps < limit
  /\ req' = [req EXCEPT ![r] = q]
  /\ steps' = steps + 1
  /\ UNCHANGED <<proc, snapshot, lastIndex, draft, now, rateLimitMap, securityLog, config, hist, last>>

CspStage(r) ==
  /\ req[r].pc = "csp"
  /\ req' = [req EXCEPT ![r] = Advance(CspReply(@), "csp")]
  /\ UNCHANGED <<proc, snapshot, lastIndex, draft, now, rateLimitMap, securityLog, config, hist, last, steps>>

LoggingStage(r) ==
  /\ req[r].pc = "log"
  /\ req' = [req EXCEPT ![r] = Advance(LoggingReply(config, @), "log")]
  /\ UNCHANGED <<proc, snapshot, lastIndex, draft, now, rateLimitMap, securityLog, config, hist, last, steps>>

CorsStage(r) ==
  /\ req[r].pc = "cors"
  /\ req' = [req EXCEPT ![r] = Advance(CorsReply(config, @), "cors")]
  /\ securityLog' = LogEvents(securityLog, CorsEvents(config, req[r]), now)
  /\ UNCHANGED <<proc, snapshot, lastIndex, draft, now, rateLimitMap, config, hist, last, steps>>

RateStage(r) ==
  /\ req[r].pc = "rate"
  /\ req' = [req EXCEPT ![r] = Advance(RateReply(config, @, rateLimitMap, now), "rate")]
  /\ rateLimitMap' = RateMap(config, req[r], rateLimitMap, now)
  /\ hist' = RateHist(config, req[r], hist, rateLimitMap, now)
  /\ securityLog' = LogEvents(securityLog, RateEvents(config, req[r], rateLimitMap, now), now)
  /\ UNCHANGED <<proc, snapshot, lastIndex, draft, now, config, last, steps>>

AuthStage(r) ==
  /\ req[r].pc = "auth"
  /\ req' = [req EXCEPT ![r] = Advance(AuthReply(config, @), "auth")]
  /\ securityLog' = LogEvents(securityLog, AuthEvents(config, req[r]), now)
  /\ UNCHANGED <<proc, snapshot, lastIndex, draft, now, rateLimitMap, config, hist, last, steps>>

\* the request passed every hook: the route handler answers it
Dispatch(r) ==
  /\ req[r].pc = "dispatch"
  /\ req' = [req EXCEPT ![r] =
               [ReplySend(@, 200, [handled |-> TRUE])
                  EXCEPT !.trace = Append(@, "dispatch"), !.pc = "done"]]
  /\ UNCHANGED <<proc, snapshot, lastIndex, draft, now, rateLimitMap, securityLog, config, hist, last, steps>>

\* the setInterval callback of registerSecurityMiddleware
Sweep ==
  /\ rateLimitMap' = CleanupMap(rateLimitMap, now)
  /\ UNCHANGED <<proc, snapshot, lastIndex, draft, now, securityLog, config, req, hist, last, steps>>

\* a whole window passes
WindowPasses ==
  /\ now + WindowMs + 1 <= MaxWindows * (WindowMs + 1)
  /\ now' = now + WindowMs + 1
  /\ UNCHANGED <<proc, snapshot, lastIndex, draft, rateLimitMap, securityLog, config, req, hist, last, steps>>

(* One request at a time, every configuration and every request *)

NextGate ==
  \/ \E q \in Requests : Arrive("r1", q, MaxRequests)
  \/ CspStage("r1")
  \/ LoggingStage("r1")
  \/ CorsStage("r1")
  \/ RateStage("r1")
  \/ AuthStage("r1")
  \/ Dispatch("r1")
  \/ Sweep
  \/ WindowPasses

Spec == InitGate /\ [][NextGate]_vars

(* Requests processed concurrently: the hooks of one request run one after *)
(* the other, and between two hooks the hooks of other requests may run;   *)
(* all of it within one window                                             *)

ConcConfigs ==
  {c \in Configs :
     /\ c.enableAuth /\ c.apiKey = Some(ApiKey)
     /\ c.enableRateLimit /\ c.maxRequestsPerMinute \in {1, 2}
     /\ ~c.enableRequestLogging
     /\ c.trustedOrigins = {OriginA}}

ViaProxy == Some(IpB \o <<",", " ">> \o IpA)

ConcRequests ==
  { Request(McpPrefix, None, Some(BearerPrefix \o ApiKey), None),
    Request(McpPrefix, None, Some(BearerPrefix \o ApiKey), ViaProxy),
    Request(Health, None, None, None),
    Request(McpPrefix, Some(OriginEvil), None, None),
    Request(McpPrefix, None, Some(BearerPrefix \o WrongKey), None),
    Request(McpPrefix, None, None, None) }

InitConc ==
  /\ now = 0
  /\ rateLimitMap = << >>
  /\ securityLog = << >>
  /\ lastIndex = [k \in 1..5 |-> 0]
  /\ config \in ConcConfigs
  /\ req = [r \in Slots |-> IdleRequest]
  /\ draft = << >>
  /\ proc = Serving
  /\ snapshot = << >>
  /\ hist = << >>
  /\ last = NoOp
  /\ steps = 0

NextConc ==
  \/ \E r \in Slots, q \in ConcRequests : Arrive(r, q, MaxConcurrent)
  \/ \E r \in Slots : CspStage(r)
  \/ \E r \in Slots : LoggingStage(r)
  \/ \E r \in Slots : CorsStage(r)
  \/ \E r \in Slots : RateStage(r)
  \/ \E r \in Slots : AuthStage(r)
  \/ \E r \in Slots : Dispatch(r)
  \/ Sweep

SpecConc == InitConc /\ [][NextConc]_vars

(* The audit log on its own, filled beyond its capacity *)

AuditKinds == <<"authentication_failed", "rate_limit_exceeded", "untrusted_origin_blocked">>

\* the n-th event handed to logSecurityEvent
AuditEvent(n) ==
  Event(AuditKinds[(n % 3) + 1], IF n % 2 = 0 THEN IpA ELSE IpB, [seq |-> n], "medium")

AuditAppend ==
  /\ steps < MaxAppends
  /\ securityLog' = LogSecurityEvent(securityLog, AuditEvent(steps + 1), now)
  /\ steps' = steps + 1
  /\ UNCHANGED <<proc, snapshot, lastIndex, draft, now, rateLimitMap, config, req, hist, last>>

NextAudit == AuditAppend

SpecAudit == InitRL /\ [][NextAudit]_vars

(* End to end: the configuration createConfig gives by default and the     *)
(* requests one client sends in 60 seconds                                 *)

DefaultConfig ==
  [enableAuth |-> FALSE, apiKey |-> None, enableRateLimit |-> TRUE,
   maxRequestsPerMinute |-> DefaultMaxRequests, enableRequestLogging |-> TRUE,
   trustedOrigins |-> {}]

EndToEndRequests ==
  {Request(Health, None, None, None),
   Request(McpPrefix, None, None, Some(IpA \o <<",", " ">> \o IpB))}

InitEndToEnd ==
  /\ now = 0
  /\ rateLimitMap = << >>
  /\ securityLog = << >>
  /\ lastIndex = [k \in 1..5 |-> 0]
  /\ config = DefaultConfig
  /\ req = [r \in Slots |-> IdleRequest]
  /\ draft = << >>
  /\ proc = Serving
  /\ snapshot = << >>
  /\ hist = << >>
  /\ last = NoOp
  /\ steps = 0

NextEndToEnd ==
  \/ \E q \in EndToEndRequests : Arrive("r1", q, MaxEndToEnd)
  \/ CspStage("r1")
  \/ LoggingStage("r1")
  \/ CorsStage("r1")
  \/ RateStage("r1")
  \/ AuthStage("r1")
  \/ Dispatch("r1")
  \/ Sweep
  \/ Tick(WindowMs)

SpecEndToEnd == InitEndToEnd /\ [][NextEndToEnd]_vars

(* The sanitizer on its own: callers put short strings together and pass *)
(* them, or a value that is no string, to sanitizeInput                    *)

Alphabet == {"R", "m", " ", ".", "/", ";", "<"}

MaxLengths == {MaxInput - 1, DefaultMaxLength}

\* the caller adds a character to the string it will pass
TypeChar(c) ==
  /\ steps < MaxSanitize
  /\ Len(draft) < MaxInput
  /\ draft' = Append(draft, c)
  /\ last' = NoOp
  /\ UNCHANGED <<proc, snapshot, lastIndex, now, rateLimitMap, securityLog, config, req, hist, steps>>

SanitizeCall(input, maxLength) ==
  /\ steps < MaxSanitize
  /\ LET out == SanitizeInput(input, maxLength, lastIndex)
     IN /\ lastIndex' = out.lastIndex
        /\ last' = [op |-> "sanitizeInput", input |-> input, maxLength |-> maxLength,
                    error |-> out.error, value |-> out.value, call |-> steps + 1]
  /\ draft' = << >>
  /\ steps' = steps + 1
  /\ UNCHANGED <<proc, snapshot, now, rateLimitMap, securityLog, config, req, hist>>

NextSanitize ==
  \/ \E c \in Alphabet : TypeChar(c)
  \/ \E input \in {Str(draft), NotAString}, maxLength \in MaxLengths :
       SanitizeCall(input, maxLength)

SpecSanitize == InitRL /\ [][NextSanitize]_vars

----------------------------------------------------------------------------
(* Claims about the rate limiter *)

SameLimit(h, n) == \A k \in 1..Len(h) : h[k].max = n

\* C1: when every call of an identifier's window is made with the same
\* maxRequests = N, the first N calls of the window are admitted and the
\* (N+1)-th is denied.
C1_FirstNAdmittedNextDenied ==
  \A id \in DOMAIN hist : \A n \in Limits :
    SameLimit(hist[id], n) =>
      \A k \in 1..Len(hist[id]) : k <= n + 1 => (hist[id][k].ok <=> k <= n)

\* C1 for limits of at least 1: the statement that the code does satisfy.
C1_PositiveLimit ==
  \A id \in DOMAIN hist : \A n \in Limits \ {0} :
    SameLimit(hist[id], n) =>
      \A k \in 1..Len(hist[id]) : hist[id][k].ok <=> k <= n

C1_PositiveLimitReached ==
  \E id \in DOMAIN hist :
    /\ Len(hist[id]) = 3 /\ SameLimit(hist[id], 2)
    /\ hist[id][1].ok /\ hist[id][2].ok /\ ~hist[id][3].ok

\* C8: a denied call leaves the entry (its resetTime included) unchanged, and
\* the first call made after the reset time R of an entry is admitted and
\* installs the fresh entry {count: 1, resetTime: now + windowMs}.
C8_NeverLockedOut ==
  last.op = "checkRateLimit" =>
    /\ last.before = << >> => last.result
    /\ ~last.result =>
          /\ last.before # << >>
          /\ rateLimitMap[last.id] = last.before[1]
    /\ (last.before # << >> /\ last.at > last.before[1].resetTime) =>
          /\ last.result
          /\ rateLimitMap[last.id] =
               [count |-> 1, resetTime |-> last.at + last.windowMs]

\* a throttled identifier (two denied calls in its window) is admitted again
\* by the first call after the reset time
C8_Witness ==
  /\ last.op = "checkRateLimit"
  /\ last.before # << >>
  /\ last.at > last.before[1].resetTime
  /\ Len(last.beforeHist) >= 3
  /\ ~last.beforeHist[Len(last.beforeHist)].ok
  /\ ~last.beforeHist[Len(last.beforeHist) - 1].ok
  /\ last.result

----------------------------------------------------------------------------
(* Claims about the gate *)

IsPrefix(s, t) == Len(s) <= Len(t) /\ SubSeq(t, 1, Len(s)) = s

LastOf(s) == s[Len(s)]

Ran(q, stage) == \E k \in 1..Len(q.trace) : q.trace[k] = stage

GateOrder == <<"csp", "log", "cors", "rate", "auth", "dispatch">>

Admitted(h) == {k \in 1..Len(h) : h[k].ok}

\* C2: under every interleaving of the hooks of concurrent requests, the
\* admitted calls of an identifier's window each saw a different count (the
\* k-th admitted call saw k - 1), the entry's count is the number of admitted
\* calls, and no more than maxRequests calls are admitted.
C2_CheckAndIncrementAtomic ==
  \A id \in DOMAIN hist :
    LET h == hist[id] IN
    /\ \A j, k \in Admitted(h) : j # k => h[j].seen # h[k].seen
    /\ \A k \in Admitted(h) : h[k].seen = Cardinality({j \in Admitted(h) : j < k})
    /\ Cardinality(Admitted(h)) <= config.maxRequestsPerMinute
    /\ id \in DOMAIN rateLimitMap => rateLimitMap[id].count = Cardinality(Admitted(h))

\* two requests of one client are in the chain together with one slot left:
\* one took it and goes on, the other was sent 429
C2_Witness ==
  /\ config.maxRequestsPerMinute = 2
  /\ req["r1"].status = 429
  /\ req["r2"].pc = "auth" /\ ~req["r2"].sent
  /\ GetClientIP(req["r1"]) = GetClientIP(req["r2"])
  /\ Len(hist[GetClientIP(req["r1"])]) = 3

\* C4: the stages of a request run in the order security headers, request
\* logging, OriginGuard, RateLimiter, AuthGuard, route handler; once a stage
\* has sent 403, 429 or 401 no later stage runs and the request is not
\* dispatched.
C4_FixedOrderShortCircuit ==
  \A r \in Slots :
    LET q == req[r] IN
    /\ IsPrefix(q.trace, GateOrder)
    /\ q.sends <= 1
    /\ q.status \in {401, 403, 429} =>
         /\ q.pc = "done"
         /\ ~Ran(q, "dispatch")
         /\ q.status = 429 => LastOf(q.trace) = "rate"
         /\ q.status = 401 => LastOf(q.trace) = "auth"
         /\ q.status = 403 => LastOf(q.trace) \in {"cors", "auth"}

\* a request that the origin guard rejected although its quota is used up and
\* its credentials are bad: neither later stage ran
C4_Witness ==
  \E r \in Slots :
    /\ req[r].status = 403 /\ req[r].trace = <<"csp", "log", "cors">>
    /\ req[r].pc = "done"
    /\ config.enableAuth /\ req[r].authorization = None
    /\ config.enableRateLimit
    /\ GetClientIP(req[r]) \in DOMAIN rateLimitMap
    /\ rateLimitMap[GetClientIP(req[r])].count >= config.maxRequestsPerMinute
    /\ now <= rateLimitMap[GetClientIP(req[r])].resetTime

\* C5: the verdict of AuthGuard on a request that reached it.
Tokens == {ApiKey, WrongKey, << >>}

HasBearer(q) == \E t \in Tokens : q.authorization = Some(BearerPrefix \o t)

Protected(q) == config.enableAuth /\ q.url \in {McpPrefix}

AuthVerdict(q) ==
  IF LastOf(q.trace) = "auth" /\ q.sent THEN q.status ELSE 0

C5_AuthDecision ==
  \A r \in Slots :
    LET q == req[r] IN
    Ran(q, "auth") =>
      /\ ~Protected(q) => AuthVerdict(q) = 0
      /\ (Protected(q) /\ ~HasBearer(q)) => AuthVerdict(q) = 401
      /\ (Protected(q) /\ HasBearer(q)
            /\ q.authorization # Some(BearerPrefix \o ApiKey)) => AuthVerdict(q) = 403
      /\ (Protected(q) /\ HasBearer(q) /\ config.apiKey = None) => AuthVerdict(q) = 403
      /\ (Protected(q) /\ config.apiKey = Some(ApiKey)
            /\ q.authorization = Some(BearerPrefix \o ApiKey)) => AuthVerdict(q) = 0
      /\ AuthVerdict(q) = 0 => q.pc \in {"dispatch", "done"} /\ q.status \in {0, 200}

\* a wrong bearer token on the protected path was sent 403
C5_Witness ==
  \E r \in Slots :
    /\ req[r].authorization = Some(BearerPrefix \o WrongKey)
    /\ req[r].url = McpPrefix
    /\ config.enableAuth /\ config.apiKey = Some(ApiKey)
    /\ req[r].status = 403 /\ LastOf(req[r].trace) = "auth"

\* C6 as claimed: on a protected path with a non-empty trustedOrigins, a
\* request that carries an Origin header (of any value, the empty one
\* included) is let through with Access-Control-Allow-Origin set to its origin
\* when the origin is trusted, and is sent 403 with exactly one medium
\* 'untrusted_origin_blocked' event appended when it is not.
CorsStep(r) == req[r].pc = "cors" /\ req'[r].pc # "cors"

OneEventAppended(kind, severity) ==
  /\ Len(securityLog') = Len(securityLog) + 1
  /\ SubSeq(securityLog', 1, Len(securityLog)) = securityLog
  /\ LastOf(securityLog').event = kind
  /\ LastOf(securityLog').severity = severity

OriginGuardOutcome(r) ==
  IF req[r].origin[1] \in config.trustedOrigins
    THEN /\ ~req'[r].sent /\ req'[r].status = 0
         /\ req'[r].pc = "rate"
         /\ "Access-Control-Allow-Origin" \in DOMAIN req'[r].headers
         /\ req'[r].headers["Access-Control-Allow-Origin"] = req[r].origin[1]
         /\ securityLog' = securityLog
    ELSE /\ req'[r].sent /\ req'[r].status = 403
         /\ req'[r].pc = "done"
         /\ OneEventAppended("untrusted_origin_blocked", "medium")

C6_AnyOriginHeader ==
  [][\A r \in Slots :
       (/\ CorsStep(r)
        /\ req[r].url = McpPrefix
        /\ config.trustedOrigins # {}
        /\ req[r].origin # None) => OriginGuardOutcome(r)]_vars

\* C6 as amended: the same for a request whose Origin header is not empty.
C6_NonEmptyOriginHeader ==
  [][\A r \in Slots :
       (/\ CorsStep(r)
        /\ req[r].url = McpPrefix
        /\ config.trustedOrigins # {}
        /\ req[r].origin # None
        /\ req[r].origin[1] # << >>) => OriginGuardOutcome(r)]_vars

\* an untrusted origin was sent 403 and its event is the last of the log
C6_Witness ==
  \E r \in Slots :
    /\ req[r].origin = Some(OriginEvil) /\ req[r].url = McpPrefix
    /\ config.trustedOrigins = {OriginA}
    /\ req[r].status = 403 /\ LastOf(req[r].trace) = "cors"
    /\ securityLog # << >>
    /\ LastOf(securityLog).event = "untrusted_origin_blocked"

\* C10: every response, rejections included, carries the security headers of
\* the first stage with the values it set.
HasHeader(q, name) == name \in DOMAIN q.headers

C10_SecurityHeadersOnEveryResponse ==
  \A r \in Slots :
    req[r].sent =>
      /\ HasHeader(req[r], "Content-Security-Policy")
      /\ req[r].headers["Content-Security-Policy"] = CspPolicy
      /\ HasHeader(req[r], "X-Content-Type-Options")
      /\ req[r].headers["X-Content-Type-Options"] = "nosniff"
      /\ HasHeader(req[r], "X-Frame-Options")
      /\ req[r].headers["X-Frame-Options"] = "DENY"
      /\ HasHeader(req[r], "Referrer-Policy")
      /\ req[r].headers["Referrer-Policy"] = "strict-origin-when-cross-origin"

\* responses of every kind were produced: a 429 here
C10_Witness ==
  \E r \in Slots : req[r].sent /\ req[r].status = 429

----------------------------------------------------------------------------
(* Claims about the audit log *)

Min(a, b) == IF a < b THEN a ELSE b

\* C7: after n logSecurityEvent calls the buffer holds the most recent
\* min(n, 1000) events in the order they were appended, so it is never longer
\* than 1000 and an append to a full buffer drops the oldest event only.
C7_BoundedFifo ==
  LET n == steps
      len == Len(securityLog)
  IN /\ len = Min(n, 1000)
     /\ \A i \in 1..len :
          securityLog[i] = [AuditEvent(n - len + i) EXCEPT !.timestamp = now]

\* the 1001st event was appended to the full buffer: the first one is gone
C7_Witness ==
  /\ steps = 1001
  /\ Len(securityLog) = 1000
  /\ securityLog[1].details.seq = 2
  /\ securityLog[1000].details.seq = 1001

----------------------------------------------------------------------------
(* Claims about the gate, end to end *)

RateStep(r) == req[r].pc = "rate" /\ req'[r].pc # "rate"

\* C9: with maxRequestsPerMinute = 100, the k-th request of a client
\* identifier's window passes the RateLimiter stage when k <= 100 and logs
\* nothing; the 101st (and each later one of the window) is sent 429 with
\* retryAfter = 60, and exactly one medium 'rate_limit_exceeded' event with
\* that identifier is appended.
C9_HundredThenRejected ==
  [][\A r \in Slots :
       RateStep(r) =>
         LET id == GetClientIP(req[r])
             k == Len(hist'[id])
         IN /\ k <= 100 =>
                 /\ ~req'[r].sent /\ req'[r].status = 0
                 /\ req'[r].pc = "auth"
                 /\ securityLog' = securityLog
            /\ k > 100 =>
                 /\ req'[r].sent /\ req'[r].status = 429
                 /\ req'[r].body.retryAfter = 60
                 /\ req'[r].pc = "done"
                 /\ OneEventAppended("rate_limit_exceeded", "medium")
                 /\ LastOf(securityLog').identifier = id]_vars

\* the 101st request of the window was sent 429 after 100 were let through
C9_Witness ==
  \E id \in DOMAIN hist :
    /\ Len(hist[id]) = 101
    /\ \A k \in 1..100 : hist[id][k].ok
    /\ ~hist[id][101].ok
    /\ req["r1"].status = 429 /\ GetClientIP(req["r1"]) = id
    /\ Len(securityLog) = 1

----------------------------------------------------------------------------
(* Claims about the sanitizer *)

\* the string has a match of a denylist pattern somewhere
Denylisted(s) == \E k \in 1..5 : MatchStarts(k, s, 0) # {}

\* C3: every call of sanitizeInput on a string that contains a denylisted
\* pattern fails, whatever calls were made before it.
C3_DenylistedAlwaysRejected ==
  (last.op = "sanitizeInput" /\ last.input.type = "string"
     /\ Denylisted(last.input.text)) => last.error # ""

\* C3 for the first call of the process, which the code does satisfy
C3_FirstCallRejected ==
  (last.op = "sanitizeInput" /\ last.call = 1 /\ last.input.type = "string"
     /\ Denylisted(last.input.text)) => last.error # ""

----------------------------------------------------------------------------
(* config.ts: createConfig, and index.ts: the start of the process *)

DefaultPort == 8080    \* default of PORT
MaxPort == 65535       \* largest port createConfig accepts

DigitChars == <<"0", "1", "2", "3", "4", "5", "6", "7", "8", "9">>

DigitValue(c) == (CHOOSE n \in 1..10 : DigitChars[n] = c) - 1

RECURSIVE DecimalValue(_)
DecimalValue(s) ==
  IF s = << >> THEN 0
  ELSE 10 * DecimalValue(SubSeq(s, 1, Len(s) - 1)) + DigitValue(s[Len(s)])

\* Number(value) for the values given here: white space is trimmed, the empty
\* string is 0, a run of decimal digits is its value and the rest is NaN,
\* written << >>
ToNumber(s) ==
  LET t == Trim(s)
  IN IF \A i \in 1..Len(t) : t[i] \in Digits THEN <<DecimalValue(t)>> ELSE << >>

\* process.env[key] with the default of getEnvVar
GetEnvVar(env, key, defaultValue) ==
  IF env[key] = None THEN defaultValue ELSE env[key][1]

\* getEnvNumber: the error thrown ("" for none) and the number returned
GetEnvNumber(env, key, defaultValue) ==
  IF env[key] = None THEN [error |-> "", value |-> defaultValue]
  ELSE IF ToNumber(env[key][1]) = << >>
    THEN [error |-> "must be a number", value |-> 0]
  ELSE [error |-> "", value |-> ToNumber(env[key][1])[1]]

\* s.split(",")
RECURSIVE SplitComma(_)
SplitComma(s) ==
  IF \A i \in 1..Len(s) : s[i] # "," THEN <<s>>
  ELSE LET i == SetMin({j \in 1..Len(s) : s[j] = ","})
       IN <<SubSeq(s, 1, i - 1)>> \o SplitComma(SubSeq(s, i + 1, Len(s)))

\* getEnvVar("TRUSTED_ORIGINS", "").split(",").filter(Boolean); the stages only
\* ask whether the array is empty and what it includes
TrustedOriginsOf(env) ==
  LET fields == SplitComma(GetEnvVar(env, "TRUSTED_ORIGINS", << >>))
  IN {fields[i] : i \in 1..Len(fields)} \ {<< >>}

NodeEnvs == {"development", "production", "test"}
LogLevels == {"trace", "debug", "info", "warn", "error", "fatal"}

\* a createConfig that does not check the range of the port
CreateConfigAnyPort(env) ==
  LET nodeEnv == GetEnvVar(env, "NODE_ENV", "development")
      port == GetEnvNumber(env, "PORT", DefaultPort)
      logLevel == GetEnvVar(env, "LOG_LEVEL",
                            IF nodeEnv = "production" THEN "info" ELSE "debug")
      maxRequests == GetEnvNumber(env, "MAX_REQUESTS_PER_MINUTE", DefaultMaxRequests)
      security ==
        [enableAuth |-> GetEnvVar(env, "ENABLE_AUTH", "false") = "true",
         apiKey |-> env["API_KEY"],
         enableRateLimit |-> GetEnvVar(env, "ENABLE_RATE_LIMIT", "true") = "true",
         maxRequestsPerMinute |-> maxRequests.value,
         enableRequestLogging |-> GetEnvVar(env, "ENABLE_REQUEST_LOGGING", "true") = "true",
         trustedOrigins |-> TrustedOriginsOf(env)]
      error ==
        IF nodeEnv \notin NodeEnvs THEN "Invalid NODE_ENV"
        ELSE IF port.error # "" THEN "PORT must be a number"
        ELSE IF maxRequests.error # "" THEN "MAX_REQUESTS_PER_MINUTE must be a number"
        ELSE IF logLevel \notin LogLevels THEN "Invalid LOG_LEVEL"
        ELSE ""
      settings ==
        [port |-> port.value,
         host |-> GetEnvVar(env, "HOST", "localhost"),
         nodeEnv |-> nodeEnv,
         logLevel |-> logLevel,
         mcpEndpoint |-> GetEnvVar(env, "MCP_ENDPOINT", McpPrefix),
         healthEndpoint |-> GetEnvVar(env, "HEALTH_ENDPOINT", "/health")]
  IN [error |-> error, settings |-> settings, security |-> security]

\* createConfig: the error thrown ("" for none) and the configuration returned
CreateConfig(env) ==
  LET nodeEnv == GetEnvVar(env, "NODE_ENV", "development")
      port == GetEnvNumber(env, "PORT", DefaultPort)
      logLevel == GetEnvVar(env, "LOG_LEVEL",
                            IF nodeEnv = "production" THEN "info" ELSE "debug")
      maxRequests == GetEnvNumber(env, "MAX_REQUESTS_PER_MINUTE", DefaultMaxRequests)
      security ==
        [enableAuth |-> GetEnvVar(env, "ENABLE_AUTH", "false") = "true",
         apiKey |-> env["API_KEY"],
         enableRateLimit |-> GetEnvVar(env, "ENABLE_RATE_LIMIT", "true") = "true",
         maxRequestsPerMinute |-> maxRequests.value,
         enableRequestLogging |-> GetEnvVar(env, "ENABLE_REQUEST_LOGGING", "true") = "true",
         trustedOrigins |-> TrustedOriginsOf(env)]
      error ==
        IF nodeEnv \notin NodeEnvs THEN "Invalid NODE_ENV"
        ELSE IF port.error # "" THEN "PORT must be a number"
        ELSE IF maxRequests.error # "" THEN "MAX_REQUESTS_PER_MINUTE must be a number"
        ELSE IF logLevel \notin LogLevels THEN "Invalid LOG_LEVEL"
        ELSE IF port.value < 1 \/ port.value > MaxPort THEN "Invalid PORT"
        ELSE ""
      settings ==
        [port |-> port.value,
         host |-> GetEnvVar(env, "HOST", "localhost"),
         nodeEnv |-> nodeEnv,
         logLevel |-> logLevel,
         mcpEndpoint |-> GetEnvVar(env, "MCP_ENDPOINT", McpPrefix),
         healthEndpoint |-> GetEnvVar(env, "HEALTH_ENDPOINT", "/health")]
  IN [error |-> error, settings |-> settings, security |-> security]

ApiPath == <<"/", "a", "p", "i">>

\* the environments the process is started in
Envs ==
  [NODE_ENV : {None, Some("production"), Some("staging")},
   PORT : {None, Some(<<"8", "0">>), Some(<<"0">>), Some(<<"x">>)},
   LOG_LEVEL : {None, Some("warn"), Some("verbose")},
   ENABLE_AUTH : {None, Some("true"), Some("TRUE")},
   API_KEY : {None, Some(ApiKey), Some(<< >>)},
   ENABLE_RATE_LIMIT : {None, Some("false")},
   MAX_REQUESTS_PER_MINUTE : {None, Some(<<"0">>), Some(<<"x">>)},
   ENABLE_REQUEST_LOGGING : {None},
   HOST : {None},
   MCP_ENDPOINT : {None, Some(ApiPath)},
   HEALTH_ENDPOINT : {None},
   TRUSTED_ORIGINS : {None, Some(OriginA \o <<",", ",">> \o OriginEvil)}]

InitStartup ==
  /\ now = 0
  /\ rateLimitMap = << >>
  /\ securityLog = << >>
  /\ lastIndex = [k \in 1..5 |-> 0]
  /\ config = NoConfig
  /\ req = [r \in Slots |-> IdleRequest]
  /\ draft = << >>
  /\ proc \in {[phase |-> "loading", env |-> e, settings |-> << >>, exitCode |-> 0,
                  served |-> 0] :
                 e \in Envs}
  /\ snapshot = << >>
  /\ hist = << >>
  /\ last = NoOp
  /\ steps = 0

\* index.ts, `const config = createConfig()`: an error thrown while the module
\* is evaluated ends the process with exit code 1
LoadConfig ==
  /\ proc.phase = "loading"
  /\ LET c == CreateConfig(proc.env)
     IN IF c.error # ""
          THEN /\ proc' = [proc EXCEPT !.phase = "exited", !.exitCode = 1]
               /\ UNCHANGED config
          ELSE /\ proc' = [proc EXCEPT !.phase = "configured", !.settings = c.settings]
               /\ config' = c.security
  /\ UNCHANGED <<now, rateLimitMap, securityLog, lastIndex, req, draft, snapshot,
                 hist, last, steps>>

\* start(): app.listen binds the port, or fails and the catch block exits with 1
Listen(bound) ==
  /\ proc.phase = "configured"
  /\ proc' = IF bound THEN [proc EXCEPT !.phase = "listening"]
                      ELSE [proc EXCEPT !.phase = "exited", !.exitCode = 1]
  /\ UNCHANGED <<now, rateLimitMap, securityLog, lastIndex, config, req, draft,
                 snapshot, hist, last, steps>>

\* the listening server accepts a request and answers it
Serve ==
  /\ proc.phase = "listening"
  /\ proc.served < MaxServed
  /\ proc' = [proc EXCEPT !.served = @ + 1]
  /\ UNCHANGED <<now, rateLimitMap, securityLog, lastIndex, config, req, draft,
                 snapshot, hist, last, steps>>

\* gracefulShutdown on SIGINT or SIGTERM
Shutdown ==
  /\ proc.phase = "listening"
  /\ proc' = [proc EXCEPT !.phase = "exited", !.exitCode = 0]
  /\ UNCHANGED <<now, rateLimitMap, securityLog, lastIndex, config, req, draft,
                 snapshot, hist, last, steps>>

NextStartup ==
  \/ LoadConfig
  \/ \E bound \in BOOLEAN : Listen(bound)
  \/ Serve
  \/ Shutdown

SpecStartup == InitStartup /\ [][NextStartup]_vars

(* Claims about the start of the process *)

AuthWithoutKey(env) == env["ENABLE_AUTH"] = Some("true") /\ env["API_KEY"] = None

\* C11: when ENABLE_AUTH is "true" and API_KEY is unset, loading the
\* configuration fails: the process never gets past it, never listens and
\* never accepts a request.
C11_AuthWithoutKeyIsFatal ==
  AuthWithoutKey(proc.env) =>
    /\ proc.phase \in {"loading", "exited"}
    /\ proc.served = 0

----------------------------------------------------------------------------
(* security.ts: getSecurityLog, and what a caller can do with the array it *)
(* returns                                                                 *)

\* [...securityLog]: a new array whose elements are the objects of the buffer
GetSecurityLog(log) == [i \in 1..Len(log) |-> log[i]]

\* logSecurityEvent creates one object per call and details.seq numbers the
\* calls here, so two array elements are the same object exactly when their
\* seq is the same
SameObject(a, b) == a.details.seq = b.details.seq

\* obj.severity = severity, seen through every element of arr that is obj
WriteSeverity(arr, obj, severity) ==
  [i \in 1..Len(arr) |->
     IF SameObject(arr[i], obj) THEN [arr[i] EXCEPT !.severity = severity] ELSE arr[i]]

Reverse(arr) == [i \in 1..Len(arr) |-> arr[Len(arr) + 1 - i]]

\* an object the caller made itself
ForgedEvent(n) == Event("forged", IpB, [seq |-> 0 - n], "low")

SnapAppend ==
  /\ steps < MaxSnapshot
  /\ securityLog' = LogSecurityEvent(securityLog, AuditEvent(steps + 1), now)
  /\ last' = [op |-> "logSecurityEvent"]
  /\ steps' = steps + 1
  /\ UNCHANGED <<now, rateLimitMap, lastIndex, config, req, draft, proc, snapshot, hist>>

SnapGet ==
  /\ steps < MaxSnapshot
  /\ snapshot' = GetSecurityLog(securityLog)
  /\ last' = [op |-> "getSecurityLog"]
  /\ steps' = steps + 1
  /\ UNCHANGED <<now, rateLimitMap, securityLog, lastIndex, config, req, draft, proc, hist>>

\* snapshot.pop()
SnapPop ==
  /\ steps < MaxSnapshot
  /\ snapshot # << >>
  /\ snapshot' = SubSeq(snapshot, 1, Len(snapshot) - 1)
  /\ last' = [op |-> "caller"]
  /\ steps' = steps + 1
  /\ UNCHANGED <<now, rateLimitMap, securityLog, lastIndex, config, req, draft, proc, hist>>

\* snapshot.reverse()
SnapReverse ==
  /\ steps < MaxSnapshot
  /\ Len(snapshot) > 1
  /\ snapshot' = Reverse(snapshot)
  /\ last' = [op |-> "caller"]
  /\ steps' = steps + 1
  /\ UNCHANGED <<now, rateLimitMap, securityLog, lastIndex, config, req, draft, proc, hist>>

\* snapshot[i] = {...}
SnapReplace(i) ==
  /\ steps < MaxSnapshot
  /\ i \in 1..Len(snapshot)
  /\ snapshot' = [snapshot EXCEPT ![i] = ForgedEvent(steps + 1)]
  /\ last' = [op |-> "caller"]
  /\ steps' = steps + 1
  /\ UNCHANGED <<now, rateLimitMap, securityLog, lastIndex, config, req, draft, proc, hist>>

\* snapshot[i].severity = "low": the element is the object the buffer holds
SnapWrite(i) ==
  /\ steps < MaxSnapshot
  /\ i \in 1..Len(snapshot)
  /\ snapshot' = WriteSeverity(snapshot, snapshot[i], "low")
  /\ securityLog' = WriteSeverity(securityLog, snapshot[i], "low")
  /\ last' = [op |-> "caller"]
  /\ steps' = steps + 1
  /\ UNCHANGED <<now, rateLimitMap, lastIndex, config, req, draft, proc, hist>>

NextSnapshot ==
  \/ SnapAppend
  \/ SnapGet
  \/ SnapPop
  \/ SnapReverse
  \/ \E i \in 1..MaxSnapshot : SnapReplace(i)
  \/ \E i \in 1..MaxSnapshot : SnapWrite(i)

SpecSnapshot == InitRL /\ [][NextSnapshot]_vars

(* Claims about the snapshot *)

\* C12: nothing a caller does through the array getSecurityLog returned
\* (removing, reordering or replacing elements, changing the fields of an
\* element) changes the buffer that later getSecurityLog calls copy, and a
\* later logSecurityEvent call does not change an array already returned.
C12_SnapshotDecoupled ==
  [][/\ last'.op = "caller" => securityLog' = securityLog
     /\ last'.op = "logSecurityEvent" => snapshot' = snapshot]_vars

\* C12 for the array itself, which the code does satisfy: removing, reordering
\* and replacing elements of the returned array leaves the buffer alone.
C12_ArrayDecoupled ==
  [][/\ last'.op = "caller" => Len(securityLog') = Len(securityLog)
     /\ last'.op = "caller" =>
          \A i \in 1..Len(securityLog) : SameObject(securityLog'[i], securityLog[i])
     /\ last'.op = "logSecurityEvent" => snapshot' = snapshot]_vars

----------------------------------------------------------------------------
(* Claims about the events of the gate *)

AuthStep(r) == req[r].pc = "auth" /\ req'[r].pc # "auth"

\* the event appended by the step
Appended == LastOf(securityLog')

----------------------------------------------------------------------------
(* mcp-server.ts: the CallToolRequestSchema handler *)

ToolMaxRequests == 50  \* limit of the throttle of a tool
ToolMaxLength == 50    \* maxLength of the name handed to hello_world

ToolPrefix == <<"t", "o", "o", "l", ":">>
HelloWorld == <<"h", "e", "l", "l", "o", "_", "w", "o", "r", "l", "d">>
OtherTool == <<"x">>

\* `tool:${name}`
ToolKey(name) == ToolPrefix \o name

\* a value that is neither a string nor truthy (null, 0, false)
Falsy == [type |-> "null", text |-> << >>]

\* the truthiness of args?.name: undefined, the empty string and Falsy are
\* falsy, NotAString stands for a number other than 0
Truthy(v) ==
  /\ v # None
  /\ v[1].type = "string" => v[1].text # << >>
  /\ v[1].type # "null"

InvalidInputText ==
  "Error: Invalid input provided. Please ensure your input contains only safe characters."

\* a greeting that never names anybody
GreetingAlwaysWorld(safeName) ==
  <<"Hello, World! Your MCP server is working correctly.">>

Greeting(safeName) ==
  IF safeName # << >>
    THEN <<"Hello, ", safeName, "! Welcome to your MCP server.">>
    ELSE <<"Hello, World! Your MCP server is working correctly.">>

\* a hello_world case without the try block
HelloWorldToolNoCatch(nameToGreet, li) ==
  IF ~Truthy(nameToGreet)
    THEN [thrown |-> "", isError |-> FALSE, text |-> Greeting(<< >>),
          events |-> << >>, lastIndex |-> li, sanitized |-> FALSE, sanitizeError |-> ""]
  ELSE LET out == SanitizeInput(nameToGreet[1], ToolMaxLength, li)
       IN IF out.error = ""
            THEN [thrown |-> "", isError |-> FALSE, text |-> Greeting(out.value),
                  events |-> << >>, lastIndex |-> out.lastIndex,
                  sanitized |-> TRUE, sanitizeError |-> ""]
            ELSE [thrown |-> out.error, isError |-> FALSE, text |-> << >>,
                  events |-> << >>, lastIndex |-> out.lastIndex,
                  sanitized |-> TRUE, sanitizeError |-> out.error]

\* case "hello_world": what the case throws ("" for nothing) or returns, the
\* event it logs, the lastIndex of the patterns afterwards, and whether
\* sanitizeInput was called and what it threw
HelloWorldTool(nameToGreet, li) ==
  IF ~Truthy(nameToGreet)
    THEN [thrown |-> "", isError |-> FALSE, text |-> Greeting(<< >>),
          events |-> << >>, lastIndex |-> li, sanitized |-> FALSE, sanitizeError |-> ""]
  ELSE LET out == SanitizeInput(nameToGreet[1], ToolMaxLength, li)
       IN IF out.error = ""
            THEN [thrown |-> "", isError |-> FALSE, text |-> Greeting(out.value),
                  events |-> << >>, lastIndex |-> out.lastIndex,
                  sanitized |-> TRUE, sanitizeError |-> ""]
            ELSE [thrown |-> "", isError |-> TRUE, text |-> <<InvalidInputText>>,
                  events |-> <<Event("input_validation_failed", HelloWorld,
                                     [args |-> nameToGreet, error |-> out.error],
                                     "medium")>>,
                  lastIndex |-> out.lastIndex,
                  sanitized |-> TRUE, sanitizeError |-> out.error]

\* a handler whose throttle fails without an event
CallToolNoEvent(name, nameToGreet, map, li, t) ==
  IF ~CheckAllowed(map, ToolKey(name), ToolMaxRequests, t)
    THEN [thrown |-> "Rate limit exceeded. Please try again later.",
          isError |-> FALSE, text |-> << >>, events |-> << >>,
          lastIndex |-> li, sanitized |-> FALSE, sanitizeError |-> ""]
  ELSE IF name = HelloWorld THEN HelloWorldTool(nameToGreet, li)
  ELSE [thrown |-> "Unknown tool", isError |-> FALSE, text |-> << >>,
        events |-> << >>, lastIndex |-> li, sanitized |-> FALSE, sanitizeError |-> ""]

\* the handler: the throttle of the tool, then the case of the tool
CallTool(name, nameToGreet, map, li, t) ==
  IF ~CheckAllowed(map, ToolKey(name), ToolMaxRequests, t)
    THEN [thrown |-> "Rate limit exceeded. Please try again later.",
          isError |-> FALSE, text |-> << >>,
          events |-> <<Event("rate_limit_exceeded", name,
                             [tool |-> name, args |-> nameToGreet], "medium")>>,
          lastIndex |-> li, sanitized |-> FALSE, sanitizeError |-> ""]
  ELSE IF name = HelloWorld THEN HelloWorldTool(nameToGreet, li)
  ELSE [thrown |-> "Unknown tool", isError |-> FALSE, text |-> << >>,
        events |-> << >>, lastIndex |-> li, sanitized |-> FALSE, sanitizeError |-> ""]

(* Tool calls next to HTTP requests that pass the gate *)

LongName == [i \in 1..(ToolMaxLength + 1) |-> "a"]

\* the values of args.name
ToolNames ==
  {None, Some(Str(<<"A", "l">>)), Some(Str(<<"A", " ", "l", "!", " ">>)),
   Some(Str(<<";">>)), Some(Str(<<"r", "m">>)),
   Some(Str(<<" ">>)), Some(Str(<< >>)), Some(Str(LongName)), Some(NotAString),
   Some(Falsy)}

ToolCalls == {<<HelloWorld, n>> : n \in ToolNames} \cup {<<OtherTool, None>>}

\* requests whose client identifier is the connection address and requests
\* whose X-Forwarded-For header gives another one
ToolRequests ==
  {Request(McpPrefix, None, None, None),
   Request(McpPrefix, None, None, Some(ToolKey(HelloWorld)))}

InitTools ==
  /\ now = 0
  /\ rateLimitMap = << >>
  /\ securityLog = << >>
  /\ lastIndex = [k \in 1..5 |-> 0]
  /\ config = DefaultConfig
  /\ req = [r \in Slots |-> IdleRequest]
  /\ draft = << >>
  /\ proc = Serving
  /\ snapshot = << >>
  /\ hist = << >>
  /\ last = NoOp
  /\ steps = 0

ToolCall(name, nameToGreet, limit) ==
  /\ steps < limit
  /\ \E out \in {CallTool(name, nameToGreet, rateLimitMap, lastIndex, now)} :
        /\ rateLimitMap' = CheckMap(rateLimitMap, ToolKey(name), ToolMaxRequests, WindowMs, now)
        /\ hist' = HistAfter(hist, rateLimitMap, ToolKey(name), ToolMaxRequests, now)
        /\ lastIndex' = out.lastIndex
        /\ securityLog' = LogEvents(securityLog, out.events, now)
        /\ last' = [op |-> "callTool", name |-> name, nameToGreet |-> nameToGreet,
                    thrown |-> out.thrown, isError |-> out.isError, text |-> out.text,
                    sanitized |-> out.sanitized, sanitizeError |-> out.sanitizeError,
                    call |-> steps + 1]
  /\ steps' = steps + 1
  /\ UNCHANGED <<now, config, req, draft, proc, snapshot>>

NextTools ==
  \/ \E c \in ToolCalls : ToolCall(c[1], c[2], MaxTool)
  \/ \E q \in ToolRequests : Arrive("r1", q, MaxTool)
  \/ CspStage("r1")
  \/ LoggingStage("r1")
  \/ CorsStage("r1")
  \/ RateStage("r1")
  \/ AuthStage("r1")
  \/ Dispatch("r1")

SpecTools == InitTools /\ [][NextTools]_vars

(* Claims about the tool handler *)

ToolStep == last' # last /\ last'.op = "callTool"

ClientKeys == {GetClientIP(q) : q \in ToolRequests}

\* C14: a request counted by the RateLimiter stage, whatever its client
\* identifier, leaves the entry (count and reset time) of every tool's throttle
\* as it was, and a tool call leaves the entry of every client as it was.
C14_ThrottlesIndependent ==
  [][/\ \A r \in Slots : RateStep(r) =>
          \A c \in ToolCalls :
            EntryOf(rateLimitMap', ToolKey(c[1])) = EntryOf(rateLimitMap, ToolKey(c[1]))
     /\ ToolStep =>
          \A id \in ClientKeys : EntryOf(rateLimitMap', id) = EntryOf(rateLimitMap, id)]_vars

\* C14 for clients whose identifier is not the key of a tool, which the code
\* does satisfy.
C14_OtherKeysIndependent ==
  [][/\ \A r \in Slots :
          (RateStep(r) /\ ~StartsWith(GetClientIP(req[r]), ToolPrefix)) =>
            \A c \in ToolCalls :
              EntryOf(rateLimitMap', ToolKey(c[1])) = EntryOf(rateLimitMap, ToolKey(c[1]))
     /\ ToolStep =>
          \A id \in {k \in ClientKeys : ~StartsWith(k, ToolPrefix)} :
            EntryOf(rateLimitMap', id) = EntryOf(rateLimitMap, id)]_vars

\* C16: a hello_world call in which sanitizeInput throws returns a result with
\* isError = true and the generic invalid-input text, appends exactly one
\* medium 'input_validation_failed' event, and throws nothing.
C16_SanitizerFailureCaught ==
  [][(ToolStep /\ last'.name = HelloWorld /\ last'.sanitizeError # "") =>
       /\ last'.thrown = ""
       /\ last'.isError
       /\ last'.text = <<InvalidInputText>>
       /\ OneEventAppended("input_validation_failed", "medium")]_vars

\* sanitizeInput threw for each of its three reasons and the handler returned
\* the error result: here for a name that is too long
C16_Witness ==
  /\ last.op = "callTool" /\ last.name = HelloWorld
  /\ last.nameToGreet = Some(Str(LongName))
  /\ last.sanitizeError = "Input too long"
  /\ last.isError /\ last.thrown = ""
  /\ LastOf(securityLog).event = "input_validation_failed"

----------------------------------------------------------------------------
(* More claims about the gate and the sanitizer *)

\* C15: with an empty trustedOrigins the OriginGuard stage rejects nothing: on
\* every path and for every Origin header or none, it sends no reply and
\* appends no event.
C15_NoTrustedOriginsNoRejection ==
  [][\A r \in Slots :
       (CorsStep(r) /\ config.trustedOrigins = {}) =>
         /\ ~req'[r].sent /\ req'[r].status = 0
         /\ req'[r].pc = "rate"
         /\ securityLog' = securityLog]_vars

\* a request from an origin nobody listed went on to the rate limiter
C15_Witness ==
  \E r \in Slots :
    /\ config.trustedOrigins = {}
    /\ req[r].origin = Some(OriginEvil) /\ req[r].url = McpPrefix
    /\ req[r].trace = <<"csp", "log", "cors">>
    /\ req[r].pc = "rate" /\ ~req[r].sent
    /\ securityLog = << >>

FreshLastIndex == [k \in 1..5 |-> 0]

\* C17: the outcome of sanitizeInput (the error thrown or the string returned)
\* depends on its arguments only: whatever calls were made before, it is the
\* outcome the same call has in a process that made none.
C17_OutcomeFunctionOfArguments ==
  last.op = "sanitizeInput" =>
    LET fresh == SanitizeInput(last.input, last.maxLength, FreshLastIndex)
    IN last.error = fresh.error /\ last.value = fresh.value

SanitizeStep == last' # last /\ last'.op = "sanitizeInput"

\* C18: sanitizeInput fails for an argument that is no string and for every
\* string longer than maxLength, whatever it contains, and it does so before
\* it tests a denylist pattern: the patterns are left as they were.
C18_LengthCheckedFirst ==
  [][SanitizeStep =>
       /\ last'.input.type # "string" =>
            last'.error = "Input must be a string" /\ lastIndex' = lastIndex
       /\ (last'.input.type = "string" /\ Len(last'.input.text) > last'.maxLength) =>
            last'.error = "Input too long" /\ lastIndex' = lastIndex]_vars

\* a denylisted string that is too long was rejected for its length, and the
\* lastIndex an earlier rejection left is still there
C18_Witness ==
  /\ last.op = "sanitizeInput" /\ last.call >= 2
  /\ last.input.type = "string"
  /\ Len(last.input.text) > last.maxLength
  /\ Denylisted(last.input.text)
  /\ last.error = "Input too long"
  /\ lastIndex # FreshLastIndex

----------------------------------------------------------------------------
(* security.ts: SAFE_PATH_PATTERN and validateFilePath *)

\* String.prototype.normalize(), that is NFC: a letter followed by a combining
\* mark becomes the precomposed letter; here "e" and the combining acute
\* accent, written "combining-acute", give "e-acute"
RECURSIVE Normalize(_)
Normalize(s) ==
  IF Len(s) >= 2 /\ s[1] = "e" /\ s[2] = "combining-acute"
    THEN <<"e-acute">> \o Normalize(SubSeq(s, 3, Len(s)))
  ELSE IF s = << >> THEN << >>
  ELSE <<Head(s)>> \o Normalize(Tail(s))

\* s.includes(part)
Includes(s, part) ==
  \E i \in 0..(Len(s) - Len(part)) : SubSeq(s, i + 1, i + Len(part)) = part

\* [a-zA-Z0-9._/-]
SafePathChar(c) == IsWord(c) \/ c \in {".", "/", "-"}

\* SAFE_PATH_PATTERN.test(s)
SafePath(s) == s # << >> /\ \A i \in 1..Len(s) : SafePathChar(s[i])

\* validateFilePath(path): the error thrown ("" for none) and the path returned
ValidateFilePath(path) ==
  IF path.type # "string" \/ path.text = << >>
    THEN [error |-> "Invalid file path", value |-> << >>]
  ELSE LET normalizedPath == Normalize(path.text)
       IN IF Includes(normalizedPath, <<".", ".">>) \/ Includes(normalizedPath, <<"~">>)
            THEN [error |-> "Path traversal detected", value |-> << >>]
          ELSE IF ~SafePath(normalizedPath)
            THEN [error |-> "Invalid characters in file path", value |-> << >>]
          ELSE [error |-> "", value |-> normalizedPath]

(* Callers put short paths together and pass them to validateFilePath *)

PathAlphabet == {"a", "_", ".", "/", "~", " ", "e", "combining-acute"}

ValidatePathCall(path) ==
  /\ steps < MaxSanitize
  /\ LET out == ValidateFilePath(path)
     IN last' = [op |-> "validateFilePath", input |-> path,
                 error |-> out.error, value |-> out.value, call |-> steps + 1]
  /\ draft' = << >>
  /\ steps' = steps + 1
  /\ UNCHANGED <<now, rateLimitMap, securityLog, lastIndex, config, req, proc,
                 snapshot, hist>>

NextPath ==
  \/ \E c \in PathAlphabet : TypeChar(c)
  \/ \E path \in {Str(draft), NotAString} : ValidatePathCall(path)

SpecPath == InitRL /\ [][NextPath]_vars

(* Claims about validateFilePath *)

\* the segments of a path: what stands between its slashes
RECURSIVE Segments(_)
Segments(s) ==
  IF \A i \in 1..Len(s) : s[i] # "/" THEN {s}
  ELSE LET i == SetMin({j \in 1..Len(s) : s[j] = "/"})
       IN {SubSeq(s, 1, i - 1)} \cup Segments(SubSeq(s, i + 1, Len(s)))

HasDotDotSegment(s) == <<".", ".">> \in Segments(s)

OnlySafeChars(s) == \A i \in 1..Len(s) : SafePathChar(s[i])

\* C19: validateFilePath rejects every path with a '..' segment, with a
\* leading '~' or with a character outside [A-Za-z0-9._/-], and accepts, and
\* returns, every non-empty path of characters of [A-Za-z0-9._/-] that has no
\* '..' segment.
C19_PathAcceptedIffSafe ==
  (last.op = "validateFilePath" /\ last.input.type = "string") =>
    LET path == last.input.text IN
    /\ HasDotDotSegment(path) => last.error # ""
    /\ (path # << >> /\ Head(path) = "~") => last.error # ""
    /\ ~OnlySafeChars(path) => last.error # ""
    /\ (path # << >> /\ OnlySafeChars(path) /\ ~HasDotDotSegment(path)) =>
          last.error = "" /\ last.value = path

\* C19 without its last part, which the code does satisfy.
C19_UnsafePathRejected ==
  (last.op = "validateFilePath" /\ last.input.type = "string") =>
    LET path == last.input.text IN
    /\ HasDotDotSegment(path) => last.error # ""
    /\ (path # << >> /\ Head(path) = "~") => last.error # ""
    /\ ~OnlySafeChars(path) => last.error # ""
    /\ last.error = "" => last.value = path

----------------------------------------------------------------------------
(* security.ts: validateUrl *)

Http == <<"h", "t", "t", "p">>
Https == <<"h", "t", "t", "p", "s">>
Ftp == <<"f", "t", "p">>
Localhost == <<"l", "o", "c", "a", "l", "h", "o", "s", "t">>
Loopback == <<"1", "2", "7", ".", "0", ".", "0", ".", "1">>
Net192 == <<"1", "9", "2", ".", "1", "6", "8", ".">>
Net10 == <<"1", "0", ".">>
Net172 == <<"1", "7", "2", ".">>

SpecialSchemes == {Http, Https, Ftp}

LowerAll(s) == [i \in 1..Len(s) |-> Lower(s[i])]

\* the 1-based index of the first element of s that is in cs, Len(s) + 1 for none
FirstOf(s, cs) == SetMin({i \in 1..Len(s) : s[i] \in cs} \cup {Len(s) + 1})

RECURSIVE SkipSlashes(_)
SkipSlashes(s) ==
  IF s # << >> /\ Head(s) \in {"/", "\\"} THEN SkipSlashes(Tail(s)) ELSE s

\* h.split(".")
RECURSIVE SplitDot(_)
SplitDot(s) ==
  IF \A i \in 1..Len(s) : s[i] # "." THEN <<s>>
  ELSE LET i == SetMin({j \in 1..Len(s) : s[j] = "."})
       IN <<SubSeq(s, 1, i - 1)>> \o SplitDot(SubSeq(s, i + 1, Len(s)))

IsDecimal(s) == s # << >> /\ \A i \in 1..Len(s) : s[i] \in Digits

RECURSIVE ToDecimal(_)
ToDecimal(n) ==
  IF n < 10 THEN <<DigitChars[n + 1]>>
  ELSE ToDecimal(n \div 10) \o <<DigitChars[(n % 10) + 1]>>

RECURSIVE Power256(_)
Power256(k) == IF k = 0 THEN 1 ELSE 256 * Power256(k - 1)

\* the four bytes of the address of a host that ends in a number: the last
\* part fills the bytes the others leave; << >> when it is no IPv4 address
Ipv4Number(parts) ==
  LET n == Len(parts)
      v(i) == DecimalValue(parts[i])
  IN IF n > 4 \/ \E i \in 1..n : ~IsDecimal(parts[i]) THEN << >>
     ELSE IF \E i \in 1..(n - 1) : v(i) > 255 THEN << >>
     ELSE IF v(n) \div Power256(4 - n) > 255 THEN << >>
     ELSE <<[i \in 1..4 |->
               IF i < n THEN v(i) ELSE (v(n) \div Power256(4 - i)) % 256]>>

Ipv4Text(bytes) ==
  ToDecimal(bytes[1]) \o <<".">> \o ToDecimal(bytes[2]) \o <<".">>
    \o ToDecimal(bytes[3]) \o <<".">> \o ToDecimal(bytes[4])

\* the host parser: a host whose last part is a number is an IPv4 address in
\* dotted decimal or a failure (<< >>), any other host is lower-cased
ParseHost(h) ==
  LET parts == SplitDot(h)
  IN IF IsDecimal(parts[Len(parts)])
       THEN IF Ipv4Number(parts) = << >> THEN << >>
            ELSE <<Ipv4Text(Ipv4Number(parts)[1])>>
       ELSE <<LowerAll(h)>>

NotAUrl == [ok |-> FALSE, protocol |-> << >>, hostname |-> << >>, pathname |-> << >>]

\* new URL(url) for absolute URLs of the schemes http, https and ftp, without
\* credentials, hexadecimal or octal numbers, query or fragment: the scheme up
\* to the first colon, lower-cased; any slashes; the host up to the port or the
\* path; the path
ParseUrl(url) ==
  LET colon == FirstOf(url, {":"})
      scheme == LowerAll(SubSeq(url, 1, colon - 1))
      rest == SkipSlashes(SubSeq(url, colon + 1, Len(url)))
      hostEnd == FirstOf(rest, {"/", "\\", ":"})
      host == ParseHost(SubSeq(rest, 1, hostEnd - 1))
      pathStart == FirstOf(rest, {"/", "\\"})
      path == SubSeq(rest, pathStart, Len(rest))
  IN IF colon > Len(url) \/ scheme \notin SpecialSchemes THEN NotAUrl
     ELSE IF hostEnd = 1 \/ host = << >> THEN NotAUrl
     ELSE [ok |-> TRUE, protocol |-> scheme \o <<":">>, hostname |-> host[1],
           pathname |-> IF path = << >> THEN <<"/">> ELSE path]

\* protocol.replace(":", "")
WithoutColon(s) ==
  LET i == FirstOf(s, {":"})
  IN SubSeq(s, 1, i - 1) \o SubSeq(s, i + 1, Len(s))

\* a blocklist without the 172. prefix
PrivateHostNo172(hostname) ==
  \/ hostname = Localhost
  \/ hostname = Loopback
  \/ StartsWith(hostname, Net192)
  \/ StartsWith(hostname, Net10)

\* the private and internal hosts validateUrl blocks
PrivateHost(hostname) ==
  \/ hostname = Localhost
  \/ hostname = Loopback
  \/ StartsWith(hostname, Net192)
  \/ StartsWith(hostname, Net10)
  \/ StartsWith(hostname, Net172)

\* validateUrl(url, allowedSchemes): the error thrown ("" for none) and the
\* URL returned; every error of the try block is thrown again as 'Invalid URL'
ValidateUrl(url, allowedSchemes) ==
  LET parsed == ParseUrl(url)
  IN IF ~parsed.ok THEN [error |-> "Invalid URL: Invalid URL", value |-> NotAUrl]
     ELSE IF WithoutColon(parsed.protocol) \notin allowedSchemes
       THEN [error |-> "Invalid URL: URL scheme not allowed", value |-> NotAUrl]
     ELSE IF PrivateHost(parsed.hostname)
       THEN [error |-> "Invalid URL: Access to private/internal URLs not allowed",
             value |-> NotAUrl]
     ELSE [error |-> "", value |-> parsed]

(* Callers pass URLs to validateUrl *)

ExampleHost == <<"e", "x", "a", "m", "p", "l", "e", ".", "c", "o", "m">>

UrlSchemes == {Https, <<"H", "T", "T", "P">>, Ftp}
UrlSeparators == {<<":", "/", "/">>, <<":">>}
UrlHosts ==
  {ExampleHost, Localhost, <<"L", "O", "C", "A", "L", "H", "O", "S", "T">>, <<"l", "o", "c", "a", "l", "h", "o", "s", "t", ":", "8", "0">>, Loopback, <<"1", "2", "7", ".", "1">>,
   <<"1", "9", "2", ".", "1", "6", "8", ".", "1", ".", "5">>, <<"1", "0", ".", "0", ".", "0", ".", "1">>, <<"1", "7", "2", ".", "1", "6", ".", "0", ".", "1">>, <<"1", "7", "2", ".", "e", "x", "a", "m", "p", "l", "e", ".", "c", "o", "m">>, <<"1", ".", "1", "0", ".", "1", ".", "1">>,
   <<"1", ".", "2", ".", "3", ".", "4", ".", "5">>}
UrlPaths == {<< >>, <<"/", "x">>}

Urls2 ==
  {s \o sep \o h \o pth :
     s \in UrlSchemes, sep \in UrlSeparators, h \in UrlHosts, pth \in UrlPaths}
    \cup {ExampleHost \o <<"/", "x">>, Https \o <<":", "/", "/">>}

AllowedSchemeSets == {{Http, Https}, {Https}, {Ftp, Https}}

ValidateUrlCall(url, allowedSchemes) ==
  /\ steps < MaxUrl
  /\ LET out == ValidateUrl(url, allowedSchemes)
     IN last' = [op |-> "validateUrl", url |-> url, allowedSchemes |-> allowedSchemes,
                 error |-> out.error, value |-> out.value, call |-> steps + 1]
  /\ steps' = steps + 1
  /\ UNCHANGED <<now, rateLimitMap, securityLog, lastIndex, config, req, draft, proc,
                 snapshot, hist>>

NextUrl == \E url \in Urls2, allowed \in AllowedSchemeSets : ValidateUrlCall(url, allowed)

SpecUrl == InitRL /\ [][NextUrl]_vars

(* Claims about validateUrl *)

\* the hosts the claim names
NamedHost(h) ==
  \/ h \in {Localhost, Loopback}
  \/ \E prefix \in {Net192, Net10, Net172} : StartsWith(h, prefix)

\* C20: for a well-formed URL, validateUrl fails when the scheme is not in
\* allowedSchemes and when the hostname of the URL is 'localhost' or
\* '127.0.0.1' or starts with '192.168.', '10.' or '172.', and in every other
\* case it returns the parsed URL.
C20_UrlAcceptedIffAllowed ==
  (last.op = "validateUrl" /\ ParseUrl(last.url).ok) =>
    LET parsed == ParseUrl(last.url)
        scheme == SubSeq(parsed.protocol, 1, Len(parsed.protocol) - 1)
    IN /\ scheme \notin last.allowedSchemes => last.error # ""
       /\ NamedHost(parsed.hostname) => last.error # ""
       /\ (scheme \in last.allowedSchemes /\ ~NamedHost(parsed.hostname)) =>
            last.error = "" /\ last.value = parsed

\* https://172.16.0.1/x was rejected although https is allowed
C20_Witness ==
  /\ last.op = "validateUrl"
  /\ last.url = Https \o <<":", "/", "/">> \o <<"1", "7", "2", ".", "1", "6", ".", "0", ".", "1">> \o <<"/", "x">>
  /\ last.allowedSchemes = {Http, Https}
  /\ last.error # ""

\* https://example.com/x was returned parsed
C20_ExampleReturned ==
  /\ last.op = "validateUrl"
  /\ last.url = Https \o <<":", "/", "/">> \o ExampleHost \o <<"/", "x">>
  /\ last.allowedSchemes = {Http, Https}
  /\ last.error = ""
  /\ last.value.hostname = ExampleHost
  /\ last.value.pathname = <<"/", "x">>

----------------------------------------------------------------------------
(* Claims about the greeting of hello_world *)

Throttled(thrown) == thrown = "Rate limit exceeded. Please try again later."

\* C21: a hello_world call the tool throttle admits returns, when
\* sanitizeInput(name, 50) accepts the name with a cleaned value that is not
\* empty, the text 'Hello, <cleaned name>! Welcome to your MCP server.' and no
\* error, and when no name is given the default 'Hello, World!' greeting.
C21_GreetingOfCleanedName ==
  [][(ToolStep /\ last'.name = HelloWorld /\ ~Throttled(last'.thrown)) =>
       /\ last'.nameToGreet = None =>
            /\ last'.thrown = "" /\ ~last'.isError
            /\ last'.text = <<"Hello, World! Your MCP server is working correctly.">>
       /\ (last'.nameToGreet # None /\ last'.nameToGreet[1].type = "string") =>
            LET out == SanitizeInput(last'.nameToGreet[1], 50, lastIndex)
            IN (out.error = "" /\ out.value # << >>) =>
                 /\ last'.thrown = "" /\ ~last'.isError
                 /\ last'.text = <<"Hello, ", out.value, "! Welcome to your MCP server.">>]_vars

\* a name with a space, a character the allowlist strips and a trailing
\* space was greeted by its cleaned form
C21_Witness ==
  /\ last.op = "callTool" /\ last.name = HelloWorld
  /\ last.nameToGreet = Some(Str(<<"A", " ", "l", "!", " ">>))
  /\ ~last.isError /\ last.thrown = ""
  /\ last.text = <<"Hello, ", <<"A", " ", "l">>, "! Welcome to your MCP server.">>

----------------------------------------------------------------------------
(* Concurrent requests whose rejections are appended to an audit log that  *)
(* is one event short of its capacity                                      *)

\* the log after n logSecurityEvent calls at time 0
FilledLog(n) == [i \in 1..n |-> AuditEvent(i)]

InitConcAudit ==
  /\ now = 0
  /\ rateLimitMap = << >>
  /\ securityLog = FilledLog(MaxLog - 1)
  /\ lastIndex = [k \in 1..5 |-> 0]
  /\ config \in {c \in ConcConfigs : c.maxRequestsPerMinute = 1}
  /\ req = [r \in Slots |-> IdleRequest]
  /\ draft = << >>
  /\ proc = Serving
  /\ snapshot = << >>
  /\ hist = << >>
  /\ last = NoOp
  /\ steps = 0

\* requests of one client: an untrusted origin, a wrong key and the right key
ConcAuditRequests ==
  { Request(McpPrefix, Some(OriginEvil), None, None),
    Request(McpPrefix, None, Some(BearerPrefix \o WrongKey), None),
    Request(McpPrefix, None, Some(BearerPrefix \o ApiKey), None) }

NextConcAudit ==
  \/ \E r \in Slots, q \in ConcAuditRequests : Arrive(r, q, MaxConcurrent)
  \/ \E r \in Slots : CspStage(r)
  \/ \E r \in Slots : LoggingStage(r)
  \/ \E r \in Slots : CorsStage(r)
  \/ \E r \in Slots : RateStage(r)
  \/ \E r \in Slots : AuthStage(r)
  \/ \E r \in Slots : Dispatch(r)

SpecConcAudit == InitConcAudit /\ [][NextConcAudit]_vars

(* Claims about concurrent appends *)

Rejections == {401, 403, 429}

\* the requests a step rejects
RejectedNow == {r \in Slots : ~req[r].sent /\ req'[r].sent /\ req'[r].status \in Rejections}

EventKindOf(status, stage) ==
  CASE status = 429 -> "rate_limit_exceeded"
    [] status = 403 /\ stage = "cors" -> "untrusted_origin_blocked"
    [] OTHER -> "authentication_failed"

\* C22: under every interleaving of the stages of concurrent requests a
\* rejection appends its event in one step: the log changes only in the step
\* of the rejecting stage, by exactly that one event at the end (and, at
\* capacity, the loss of the oldest), so no event is lost or duplicated, the
\* order is the order of the rejections, and no state holds more than 1000.
C22_AppendsSerialized ==
  [][/\ Len(securityLog') <= 1000
     /\ RejectedNow = {} => securityLog' = securityLog
     /\ \A r \in RejectedNow :
          /\ RejectedNow = {r}
          /\ LET kept == IF Len(securityLog) < 1000 THEN securityLog ELSE Tail(securityLog)
             IN /\ Len(securityLog') = Len(kept) + 1
                /\ SubSeq(securityLog', 1, Len(kept)) = kept
                /\ Appended.event = EventKindOf(req'[r].status, req[r].pc)
                /\ Appended.identifier = GetClientIP(req[r])]_vars

\* two requests in the chain together were both rejected with the log full:
\* the two oldest events are gone and the log ends with the two new ones
C22_Witness ==
  /\ Len(securityLog) = 1000
  /\ securityLog[1].details = [seq |-> 3]
  /\ \A r \in Slots : req[r].sent /\ req[r].status \in Rejections
  /\ steps = 3
  /\ \E r \in Slots : securityLog[1000].identifier = GetClientIP(req[r])

----------------------------------------------------------------------------
(* Claims about createConfig *)

LoadStep == proc.phase = "loading" /\ proc'.phase # "loading"

IsSet(env, key) == env[key] # None

\* the environments the claim says createConfig throws for
InvalidEnv(env) ==
  \/ IsSet(env, "NODE_ENV") /\ env["NODE_ENV"][1] \notin {"development", "production", "test"}
  \/ IsSet(env, "LOG_LEVEL")
       /\ env["LOG_LEVEL"][1] \notin {"trace", "debug", "info", "warn", "error", "fatal"}
  \/ IsSet(env, "PORT") /\ ToNumber(env["PORT"][1]) = << >>
  \/ IsSet(env, "MAX_REQUESTS_PER_MINUTE") /\ ToNumber(env["MAX_REQUESTS_PER_MINUTE"][1]) = << >>
  \/ IsSet(env, "PORT") /\ ToNumber(env["PORT"][1]) # << >>
       /\ (ToNumber(env["PORT"][1])[1] < 1 \/ ToNumber(env["PORT"][1])[1] > 65535)

\* C23: createConfig throws, and returns nothing, when NODE_ENV or LOG_LEVEL is
\* not one of the valid values, when PORT or MAX_REQUESTS_PER_MINUTE is not a
\* number or when PORT is outside 1..65535; otherwise it returns a
\* configuration whose validated settings are all valid and in which every
\* unset variable has its documented default.
C23_ConfigOrThrow ==
  [][LoadStep =>
       LET env == proc.env
           got == proc'.settings
       IN /\ proc'.phase \in {"configured", "exited"}
          /\ InvalidEnv(env) =>
               /\ proc'.phase = "exited" /\ proc'.exitCode = 1
               /\ got = << >> /\ config' = config
          /\ proc'.phase = "configured" =>
               /\ got.nodeEnv \in {"development", "production", "test"}
               /\ got.logLevel \in {"trace", "debug", "info", "warn", "error", "fatal"}
               /\ got.port \in 1..65535
               /\ ~IsSet(env, "PORT") => got.port = 8080
               /\ ~IsSet(env, "HOST") => got.host = "localhost"
               /\ ~IsSet(env, "NODE_ENV") => got.nodeEnv = "development"
               /\ ~IsSet(env, "LOG_LEVEL") =>
                    got.logLevel = IF got.nodeEnv = "production" THEN "info" ELSE "debug"
               /\ ~IsSet(env, "MCP_ENDPOINT") => got.mcpEndpoint = <<"/", "m", "c", "p">>
               /\ ~IsSet(env, "HEALTH_ENDPOINT") => got.healthEndpoint = "/health"]_vars

\* the configuration loaded in production with only the port set
C23_Witness ==
  /\ proc.phase = "configured"
  /\ proc.env["NODE_ENV"] = Some("production") /\ proc.env["PORT"] = Some(<<"8", "0">>)
  /\ proc.env["LOG_LEVEL"] = None
  /\ proc.settings.port = 80 /\ proc.settings.logLevel = "info"
  /\ proc.settings.host = "localhost" /\ proc.settings.mcpEndpoint = <<"/", "m", "c", "p">>

\* PORT=0 ended the process while the configuration was loaded
C23_PortZeroThrows ==
  /\ proc.phase = "exited" /\ proc.settings = << >>
  /\ proc.env["PORT"] = Some(<<"0">>) /\ proc.env["NODE_ENV"] = None
  /\ proc.env["LOG_LEVEL"] = None /\ proc.env["MAX_REQUESTS_PER_MINUTE"] = None

----------------------------------------------------------------------------
(* Claims about the entries of rateLimitMap *)

RLCallStep == steps' = steps + 1 /\ last'.op = "checkRateLimit"

RLCleanupStep == steps' = steps + 1 /\ last'.op = "cleanupRateLimit"

\* C24: a call made while the identifier's entry exists, now <= resetTime and
\* count >= maxRequests returns false and leaves the whole map, that entry and
\* the entries of the other identifiers, as it was.
C24_DeniedCallNoEffect ==
  [][(/\ RLCallStep
      /\ last'.id \in DOMAIN rateLimitMap
      /\ now <= rateLimitMap[last'.id].resetTime
      /\ rateLimitMap[last'.id].count >= last'.max)
       => /\ last'.result = FALSE
          /\ DOMAIN rateLimitMap' = DOMAIN rateLimitMap
          /\ \A id \in DOMAIN rateLimitMap :
               /\ rateLimitMap'[id].count = rateLimitMap[id].count
               /\ rateLimitMap'[id].resetTime = rateLimitMap[id].resetTime]_vars

\* a call was denied at the reset time of its entry while the other identifier
\* has an entry too
C24_Witness ==
  /\ last.op = "checkRateLimit" /\ ~last.result
  /\ last.before # << >>
  /\ last.at = last.before[1].resetTime
  /\ last.before[1].count >= last.max
  /\ DOMAIN rateLimitMap = ClientIds

\* C25: the map holds one entry per identifier; while an entry stays in its
\* window (same resetTime) a step leaves its count or raises it by 1, an
\* admitted call on it raises it by exactly 1 and a denied call leaves it;
\* an entry is replaced only by {count: 1, resetTime: now + windowMs} in a call
\* of its identifier made with now > resetTime, and is removed only by a
\* cleanup made with now > resetTime.
C25_CountMonotoneInWindow ==
  [][/\ DOMAIN rateLimitMap' \subseteq ClientIds
     /\ \A id \in DOMAIN rateLimitMap' :
          /\ DOMAIN rateLimitMap'[id] = {"count", "resetTime"}
          /\ rateLimitMap'[id].count >= 1
     /\ \A id \in DOMAIN rateLimitMap :
          LET old == rateLimitMap[id]
              called == RLCallStep /\ last'.id = id
          IN IF id \in DOMAIN rateLimitMap' /\ rateLimitMap'[id].resetTime = old.resetTime
               THEN /\ rateLimitMap'[id].count \in {old.count, old.count + 1}
                    /\ (called /\ last'.result /\ now <= old.resetTime)
                         => rateLimitMap'[id].count = old.count + 1
                    /\ (called /\ ~last'.result) => rateLimitMap'[id].count = old.count
                    /\ ~called => rateLimitMap'[id].count = old.count
             ELSE IF id \in DOMAIN rateLimitMap'
               THEN /\ called /\ now > old.resetTime
                    /\ rateLimitMap'[id] =
                         [count |-> 1, resetTime |-> now + last'.windowMs]
             ELSE RLCleanupStep /\ now > old.resetTime]_vars

\* an entry counted up to 2 in its window was replaced by {count: 1} by the
\* call made after its reset time
C25_Witness ==
  /\ last.op = "checkRateLimit" /\ last.result
  /\ last.before # << >>
  /\ last.before[1].count = 2
  /\ last.at > last.before[1].resetTime
  /\ rateLimitMap[last.id] = [count |-> 1, resetTime |-> last.at + last.windowMs]

\* C26: cleanupRateLimit leaves exactly the entries with now <= resetTime,
\* each with the count and resetTime it had.
C26_CleanupRemovesExpired ==
  [][RLCleanupStep =>
       /\ DOMAIN rateLimitMap' =
            {id \in DOMAIN rateLimitMap : now <= rateLimitMap[id].resetTime}
       /\ \A id \in DOMAIN rateLimitMap' : ~(now > rateLimitMap'[id].resetTime)
       /\ \A id \in DOMAIN rateLimitMap :
            now <= rateLimitMap[id].resetTime =>
              /\ id \in DOMAIN rateLimitMap'
              /\ rateLimitMap'[id].count = rateLimitMap[id].count
              /\ rateLimitMap'[id].resetTime = rateLimitMap[id].resetTime]_vars

\* a sweep removed the expired entry of one identifier and kept the entry of
\* the other, whose reset time is now
C26_Witness ==
  /\ last.op = "cleanupRateLimit"
  /\ DOMAIN hist = ClientIds
  /\ \E kept \in ClientIds :
       /\ DOMAIN rateLimitMap = {kept}
       /\ rateLimitMap[kept].resetTime = now
       /\ rateLimitMap[kept].count = 2

----------------------------------------------------------------------------
(* Claims about the value sanitizeInput returns *)

\* the characters [\w\s.-]
AllowedChar(c) ==
  \/ c \in {"a", "b", "c", "d", "e", "f", "g", "h", "i", "j", "k", "l", "m",
            "n", "o", "p", "q", "r", "s", "t", "u", "v", "w", "x", "y", "z"}
  \/ c \in {"A", "B", "C", "D", "E", "F", "G", "H", "I", "J", "K", "L", "M",
            "N", "O", "P", "Q", "R", "S", "T", "U", "V", "W", "X", "Y", "Z"}
  \/ c \in {"0", "1", "2", "3", "4", "5", "6", "7", "8", "9", "_"}
  \/ c \in {" ", "\t", "\n", ".", "-"}

\* s without the white space at its two ends
Trimmed(s) ==
  LET inner == {i \in 1..Len(s) : s[i] \notin {" ", "\t", "\n"}}
  IN IF inner = {} THEN << >>
     ELSE SubSeq(s, CHOOSE i \in inner : \A j \in inner : i <= j,
                    CHOOSE i \in inner : \A j \in inner : j <= i)

\* C27: a value sanitizeInput returns is the input with the characters
\* outside [\w\s.-] removed and the white space at both ends trimmed: it has
\* allowed characters only, no white space at either end, and is no longer
\* than the input.
C27_ReturnedValueStrippedAndTrimmed ==
  (last.op = "sanitizeInput" /\ last.error = "") =>
    LET in == last.input.text
        out == last.value
    IN /\ last.input.type = "string"
       /\ out = Trimmed(SelectSeq(in, AllowedChar))
       /\ \A i \in 1..Len(out) : AllowedChar(out[i])
       /\ out # << >> => out[1] \notin {" ", "\t", "\n"}
       /\ out # << >> => out[Len(out)] \notin {" ", "\t", "\n"}
       /\ Len(out) <= Len(in)

\* a string with a "/" and white space at an end came back shorter by both
C27_Witness ==
  /\ last.op = "sanitizeInput" /\ last.error = ""
  /\ Len(last.input.text) = 3
  /\ \E i \in 1..3 : last.input.text[i] = "/"
  /\ last.input.text[1] = " "
  /\ Len(last.value) = 1

----------------------------------------------------------------------------
(* The quota of one client: requests to /health and under /mcp, with trusted *)
(* and untrusted origins and with right, wrong and no credentials, from one  *)
(* address and within one window, processed concurrently                     *)

QuotaRequests ==
  { Request(Health, Some(OriginEvil), None, None),
    Request(McpPrefix, Some(OriginEvil), Some(BearerPrefix \o ApiKey), None),
    Request(McpPrefix, Some(OriginEvil), Some(BearerPrefix \o WrongKey), None),
    Request(McpPrefix \o <<"/", "x">>, None, Some(BearerPrefix \o WrongKey), None),
    Request(McpPrefix, None, None, None),
    Request(McpPrefix, None, Some(BearerPrefix \o ApiKey), None) }

NextQuota ==
  \/ \E r \in Slots, q \in QuotaRequests : Arrive(r, q, MaxConcurrent)
  \/ \E r \in Slots : CspStage(r)
  \/ \E r \in Slots : LoggingStage(r)
  \/ \E r \in Slots : CorsStage(r)
  \/ \E r \in Slots : RateStage(r)
  \/ \E r \in Slots : AuthStage(r)
  \/ \E r \in Slots : Dispatch(r)
  \/ Sweep

SpecQuota == InitConc /\ [][NextQuota]_vars

(* Claims about the quota *)

UnderMcp(q) == Len(q.url) >= 4 /\ SubSeq(q.url, 1, 4) = <<"/", "m", "c", "p">>

\* the identifier's entry exists, its window is open and its count is at the limit
QuotaSpent(id) ==
  /\ id \in DOMAIN rateLimitMap
  /\ now <= rateLimitMap[id].resetTime
  /\ rateLimitMap[id].count >= config.maxRequestsPerMinute

Logged(log, kind, id) ==
  Cardinality({i \in 1..Len(log) : log[i].event = kind /\ log[i].identifier = id})

\* C28: the RateLimiter stage treats a request the same whatever its path: it
\* sends 429 (retryAfter 60) when the quota of the client identifier is spent
\* and otherwise takes one slot of it and lets the request go on; OriginGuard
\* and AuthGuard send nothing and log nothing for a path outside /mcp, and
\* reject an untrusted origin and missing or wrong credentials under /mcp.
C28_RateLimiterOnEveryPath ==
  [][\A r \in Slots :
       LET q == req[r]
           id == GetClientIP(q)
       IN /\ RateStep(r) =>
               IF QuotaSpent(id)
                 THEN /\ req'[r].sent /\ req'[r].status = 429
                      /\ req'[r].body.retryAfter = 60
                      /\ rateLimitMap' = rateLimitMap
                 ELSE /\ ~req'[r].sent
                      /\ id \in DOMAIN rateLimitMap'
                      /\ rateLimitMap'[id].count =
                           IF id \in DOMAIN rateLimitMap
                             THEN rateLimitMap[id].count + 1 ELSE 1
          /\ (CorsStep(r) /\ ~UnderMcp(q)) =>
               /\ ~req'[r].sent /\ req'[r].headers = q.headers
               /\ securityLog' = securityLog
          /\ (AuthStep(r) /\ ~UnderMcp(q)) =>
               /\ ~req'[r].sent /\ securityLog' = securityLog
          /\ (CorsStep(r) /\ UnderMcp(q) /\ q.origin = <<OriginEvil>>) =>
               req'[r].sent /\ req'[r].status = 403
          /\ (AuthStep(r) /\ UnderMcp(q) /\ q.authorization # <<BearerPrefix \o ApiKey>>) =>
               req'[r].sent /\ req'[r].status \in {401, 403}]_vars

\* of two requests to /health with an untrusted origin and no credentials,
\* one was answered by the route and the other was sent 429
C28_Witness ==
  /\ config.maxRequestsPerMinute = 1
  /\ \A r \in Slots :
       req[r].url = Health /\ req[r].origin = <<OriginEvil>> /\ req[r].pc = "done"
  /\ req["r1"].status = 200 /\ Ran(req["r1"], "auth")
  /\ req["r2"].status = 429
  /\ rateLimitMap[IpA].count = 1

C30_OriginRejectionLeavesQuota ==
  [][/\ \A r \in Slots :
          (CorsStep(r) /\ req'[r].sent) =>
            /\ req'[r].status = 403 /\ req'[r].pc = "done"
            /\ rateLimitMap' = rateLimitMap
            /\ ~Ran(req'[r], "rate")
     /\ rateLimitMap' # rateLimitMap =>
          \E r \in Slots :
            /\ RateStep(r) /\ ~req[r].sent
            /\ ~(UnderMcp(req[r]) /\ req[r].origin = <<OriginEvil>>)
            /\ DOMAIN rateLimitMap' = DOMAIN rateLimitMap \cup {GetClientIP(req[r])}
     /\ \A id \in DOMAIN rateLimitMap' :
          rateLimitMap'[id].count + Logged(securityLog', "untrusted_origin_blocked", id)
            <= steps']_vars

\* three requests with an untrusted origin were blocked and there is no entry
C30_Witness ==
  /\ Logged(securityLog, "untrusted_origin_blocked", IpA) = 3
  /\ \A r \in Slots : req[r].status = 403 /\ req[r].pc = "done"
  /\ rateLimitMap = << >>

----------------------------------------------------------------------------
(* Claims about the limit and the sweep *)

\* C31: for every limit the configuration can supply, 0 included, the calls
\* admitted for an identifier in one window, all made with maxRequests = N,
\* are at most N.
C31_AdmittedWithinLimit ==
  \A id \in DOMAIN hist : \A n \in Limits :
    SameLimit(hist[id], n) => Cardinality(Admitted(hist[id])) <= n

\* the same for the limits of at least 1, which the code keeps
C31_AdmittedWithinPositiveLimit ==
  \A id \in DOMAIN hist : \A n \in Limits \ {0} :
    SameLimit(hist[id], n) => Cardinality(Admitted(hist[id])) <= n

(* The limiter with the periodic sweep, next to the run of the same calls at *)
(* the same times in which the sweep never runs: `last` carries the map and  *)
(* the result of that run                                                    *)

InitSweep ==
  /\ now = 0
  /\ rateLimitMap = << >>
  /\ securityLog = << >>
  /\ lastIndex = [k \in 1..5 |-> 0]
  /\ config = NoConfig
  /\ req = [r \in Slots |-> IdleRequest]
  /\ draft = << >>
  /\ proc = Serving
  /\ snapshot = << >>
  /\ hist = << >>
  /\ last = [op |-> "none", id |-> << >>, result |-> TRUE, unsweptResult |-> TRUE,
             unswept |-> << >>, swept |-> {}]
  /\ steps = 0

SweptCall(id, maxRequests, windowMs) ==
  /\ steps < MaxCalls
  /\ rateLimitMap' = CheckMap(rateLimitMap, id, maxRequests, windowMs, now)
  /\ hist' = HistAfter(hist, rateLimitMap, id, maxRequests, now)
  /\ last' = [op |-> "checkRateLimit", id |-> id,
              result |-> CheckAllowed(rateLimitMap, id, maxRequests, now),
              unsweptResult |-> CheckAllowed(last.unswept, id, maxRequests, now),
              unswept |-> CheckMap(last.unswept, id, maxRequests, windowMs, now),
              swept |-> last.swept]
  /\ steps' = steps + 1
  /\ UNCHANGED <<proc, snapshot, lastIndex, draft, now, securityLog, config, req>>

SweptCleanup ==
  /\ steps < MaxCalls
  /\ rateLimitMap' = CleanupMap(rateLimitMap, now)
  /\ last' = [last EXCEPT !.op = "cleanupRateLimit",
                          !.swept = @ \cup (DOMAIN rateLimitMap \ DOMAIN rateLimitMap')]
  /\ steps' = steps + 1
  /\ UNCHANGED <<proc, snapshot, lastIndex, draft, now, securityLog, config, req, hist>>

NextSweep ==
  \/ \E id \in ClientIds, m \in Limits, w \in Windows : SweptCall(id, m, w)
  \/ SweptCleanup
  \/ Tick(MaxTicks * TickMs)

SpecSweep == InitSweep /\ [][NextSweep]_vars

\* C32: wherever cleanupRateLimit calls are inserted into a sequence of
\* checkRateLimit calls, each call returns what it returns in the run without
\* them, and the two maps agree on every entry whose window is still open.
C32_SweepInvisible ==
  /\ last.op = "checkRateLimit" => last.result = last.unsweptResult
  /\ \A id \in ClientIds :
       LET live(map) == id \in DOMAIN map /\ now <= map[id].resetTime
       IN /\ live(rateLimitMap) <=> live(last.unswept)
          /\ live(rateLimitMap) => rateLimitMap[id] = last.unswept[id]

\* an identifier whose entry a sweep removed called again and was admitted, as
\* in the run without the sweep, while the entry of the other identifier was
\* swept and is still in the map of that run
C32_Witness ==
  /\ last.op = "checkRateLimit"
  /\ last.swept = ClientIds
  /\ last.result /\ last.unsweptResult
  /\ DOMAIN rateLimitMap = {last.id}
  /\ DOMAIN last.unswept = ClientIds

----------------------------------------------------------------------------
(* Claims about sanitizing twice *)

\* C33: a value sanitizeInput returns contains no denylisted pattern, and
\* sanitizeInput applied to it next succeeds and returns it unchanged.
C33_SanitizeIdempotent ==
  (last.op = "sanitizeInput" /\ last.error = "") =>
    LET again == SanitizeInput(Str(last.value), last.maxLength, lastIndex)
    IN /\ ~Denylisted(last.value)
       /\ again.error = ""
       /\ again.value = last.value

----------------------------------------------------------------------------
(* The gate in front of the endpoint the configuration names: the process   *)
(* is started with authentication on and a key, with or without             *)
(* MCP_ENDPOINT, and a request is sent to the MCP endpoint or to /health    *)

EndpointEnvs ==
  {e \in Envs :
     /\ e["NODE_ENV"] = None /\ e["PORT"] = None /\ e["LOG_LEVEL"] = None
     /\ e["ENABLE_AUTH"] = Some("true") /\ e["API_KEY"] = Some(ApiKey)
     /\ e["MAX_REQUESTS_PER_MINUTE"] = None}

\* the requests sent to a server whose transport is registered at `endpoint`
EndpointRequests(endpoint) ==
  {Request(u, None, a, None) :
     u \in {endpoint, endpoint \o <<"/", "x">>, Health},
     a \in {None, Some(BearerPrefix \o ApiKey), Some(BearerPrefix \o WrongKey)}}

InitEndpoint ==
  /\ now = 0
  /\ rateLimitMap = << >>
  /\ securityLog = << >>
  /\ lastIndex = [k \in 1..5 |-> 0]
  /\ \E e \in EndpointEnvs :
       /\ CreateConfig(e).error = ""
       /\ config = CreateConfig(e).security
       /\ proc = [Serving EXCEPT !.env = e, !.settings = CreateConfig(e).settings]
  /\ req = [r \in Slots |-> IdleRequest]
  /\ draft = << >>
  /\ snapshot = << >>
  /\ hist = << >>
  /\ last = NoOp
  /\ steps = 0

NextEndpoint ==
  \/ \E q \in EndpointRequests(proc.settings.mcpEndpoint) : Arrive("r1", q, MaxRequests)
  \/ CspStage("r1")
  \/ LoggingStage("r1")
  \/ CorsStage("r1")
  \/ RateStage("r1")
  \/ AuthStage("r1")
  \/ Dispatch("r1")

SpecEndpoint == InitEndpoint /\ [][NextEndpoint]_vars

\* the request went through AuthGuard and AuthGuard did not reject it
PassedAuthGuard(q) == Ran(q, "auth") /\ q.status \notin {401, 403}

\* C34: with enableAuth true and an apiKey configured, a request whose URL is
\* under config.mcpEndpoint passes AuthGuard only with the Authorization
\* header 'Bearer <apiKey>'.
C34_EndpointGuarded ==
  \A r \in Slots :
    (/\ config.enableAuth /\ config.apiKey # None
     /\ req[r].url # << >>
     /\ IsPrefix(proc.settings.mcpEndpoint, req[r].url)
     /\ PassedAuthGuard(req[r]))
      => req[r].authorization = <<BearerPrefix \o config.apiKey[1]>>

\* the same for the requests under /mcp, which is the endpoint when
\* MCP_ENDPOINT is unset
C34_DefaultEndpointGuarded ==
  \A r \in Slots :
    (/\ config.enableAuth /\ config.apiKey # None
     /\ IsPrefix(<<"/", "m", "c", "p">>, req[r].url)
     /\ PassedAuthGuard(req[r]))
      => req[r].authorization = <<BearerPrefix \o config.apiKey[1]>>

----------------------------------------------------------------------------
(* Claims about the rejection of one request *)

\* the stage of request r that runs in the step
StageStep(r) == req[r].pc \in {"csp", "log", "cors", "rate", "auth"} /\ req'[r] # req[r]

\* C35: a request is sent at most one reply; the stage that rejects it (403,
\* 429 or 401) ends it and appends exactly one event, with the identifier of
\* the request, every other stage appends none, and a request that has its
\* reply is touched by no stage again: so a request has at most one rejection
\* and at most one event, also when it would fail several stages.
C35_AtMostOneRejection ==
  [][/\ \A r \in Slots :
          /\ req'[r].sends <= 1
          /\ StageStep(r) =>
               IF req'[r].sent /\ req'[r].status \in {401, 403, 429}
                 THEN /\ req'[r].pc = "done" /\ req'[r].sends = 1
                      /\ Len(securityLog') = Len(securityLog) + 1
                      /\ SubSeq(securityLog', 1, Len(securityLog)) = securityLog
                      /\ securityLog'[Len(securityLog')].identifier = GetClientIP(req[r])
                 ELSE /\ ~req'[r].sent /\ securityLog' = securityLog
          /\ (req[r].sent /\ req'[r] # req[r]) =>
               /\ req[r].pc = "done"
               /\ req'[r].pc = "csp" /\ req'[r].sends = 0 /\ req'[r].trace = << >>
     /\ securityLog' # securityLog =>
          Cardinality({r \in Slots : StageStep(r)}) = 1]_vars

\* with the quota of the client spent by a request that was served, a request
\* with an untrusted origin and a wrong key got the 403 of OriginGuard, one
\* reply and the one event of the log
C35_Witness ==
  /\ config.maxRequestsPerMinute = 1
  /\ IpA \in DOMAIN rateLimitMap
  /\ rateLimitMap[IpA].count = 1
  /\ req["r1"].status = 200
  /\ req["r2"].origin = <<OriginEvil>>
  /\ req["r2"].authorization = <<BearerPrefix \o WrongKey>>
  /\ req["r2"].status = 403 /\ req["r2"].sends = 1 /\ req["r2"].pc = "done"
  /\ Len(securityLog) = 1
  /\ securityLog[1].event = "untrusted_origin_blocked"

----------------------------------------------------------------------------
(* Claims about the CORS fields *)

AllowOrigin == "Access-Control-Allow-Origin"

\* C36: OriginGuard never rejects a request under /mcp that has no Origin
\* header, whatever trustedOrigins is: the request goes on with
\* Access-Control-Allow-Credentials, -Methods and -Headers set and without
\* Access-Control-Allow-Origin; and a response carries
\* Access-Control-Allow-Origin only when the Origin of its request is a member
\* of trustedOrigins, with that origin as the value.
C36_NoOriginNeverRejected ==
  [][\A r \in Slots :
       /\ (CorsStep(r) /\ UnderMcp(req[r]) /\ req[r].origin = << >>) =>
            /\ ~req'[r].sent /\ req'[r].status = 0
            /\ req'[r].pc = "rate"
            /\ securityLog' = securityLog
            /\ DOMAIN req'[r].headers =
                 DOMAIN req[r].headers \cup
                   {"Access-Control-Allow-Credentials", "Access-Control-Allow-Methods",
                    "Access-Control-Allow-Headers"}
            /\ req'[r].headers["Access-Control-Allow-Credentials"] = "true"
            /\ req'[r].headers["Access-Control-Allow-Methods"] = "GET, POST, OPTIONS"
            /\ req'[r].headers["Access-Control-Allow-Headers"] = "Content-Type, Authorization"
            /\ AllowOrigin \notin DOMAIN req'[r].headers
       /\ AllowOrigin \in DOMAIN req'[r].headers =>
            /\ req'[r].origin # << >>
            /\ req'[r].origin[1] \in config.trustedOrigins
            /\ req'[r].headers[AllowOrigin] = req'[r].origin[1]]_vars

\* with an origin trusted, a request to /mcp without Origin header was served
\* with the three CORS fields and without Access-Control-Allow-Origin
C36_Witness ==
  /\ config.trustedOrigins = {OriginA}
  /\ req["r1"].url = McpPrefix /\ req["r1"].origin = << >>
  /\ req["r1"].status = 200 /\ Ran(req["r1"], "cors")
  /\ "Access-Control-Allow-Credentials" \in DOMAIN req["r1"].headers
  /\ AllowOrigin \notin DOMAIN req["r1"].headers

----------------------------------------------------------------------------
(* The throttle of the tools: more calls than the limit, of a known and of  *)
(* an unknown tool, before and after the window has passed                  *)

ThrottleCalls ==
  {<<HelloWorld, Some(Str(<<"A", "l">>))>>, <<OtherTool, None>>}

NextThrottle ==
  \/ \E c \in ThrottleCalls : ToolCall(c[1], c[2], MaxThrottle)
  \/ WindowPasses

SpecThrottle == InitTools /\ [][NextThrottle]_vars

\* C37: a tools/call of any name first calls checkRateLimit with the key
\* 'tool:<name>', 50 and 60000. When the entry of the key has its window open
\* and a count of 50 or more, the call leaves the map as it is, appends
\* exactly one medium 'rate_limit_exceeded' event whose identifier is the tool
\* name, throws 'Rate limit exceeded...' and neither sanitizes nor returns
\* anything; otherwise it takes a slot of the key and goes on to the tool.
C37_ToolThrottle ==
  [][ToolStep =>
       LET name == last'.name
           key == <<"t", "o", "o", "l", ":">> \o name
           live == key \in DOMAIN rateLimitMap /\ now <= rateLimitMap[key].resetTime
       IN IF live /\ rateLimitMap[key].count >= 50
            THEN /\ rateLimitMap' = rateLimitMap
                 /\ Len(securityLog') = Len(securityLog) + 1
                 /\ SubSeq(securityLog', 1, Len(securityLog)) = securityLog
                 /\ securityLog'[Len(securityLog')].event = "rate_limit_exceeded"
                 /\ securityLog'[Len(securityLog')].identifier = name
                 /\ securityLog'[Len(securityLog')].severity = "medium"
                 /\ last'.thrown = "Rate limit exceeded. Please try again later."
                 /\ ~last'.sanitized /\ last'.text = << >> /\ ~last'.isError
                 /\ lastIndex' = lastIndex
            ELSE /\ key \in DOMAIN rateLimitMap'
                 /\ rateLimitMap'[key] =
                      IF live
                        THEN [count |-> rateLimitMap[key].count + 1,
                              resetTime |-> rateLimitMap[key].resetTime]
                        ELSE [count |-> 1, resetTime |-> now + 60000]
                 /\ \A k \in DOMAIN rateLimitMap \ {key} :
                      k \in DOMAIN rateLimitMap' /\ rateLimitMap'[k] = rateLimitMap[k]
                 /\ last'.thrown # "Rate limit exceeded. Please try again later."
                 /\ securityLog' = securityLog]_vars

\* the 51st hello_world call of the window, with a name to greet, was denied:
\* the name was not sanitized and the one event of the log names the tool
C37_Witness ==
  /\ last.op = "callTool" /\ last.name = HelloWorld
  /\ last.nameToGreet = <<Str(<<"A", "l">>)>>
  /\ last.thrown = "Rate limit exceeded. Please try again later."
  /\ ~last.sanitized
  /\ rateLimitMap[ToolKey(HelloWorld)].count = 50
  /\ Len(securityLog) = 1
  /\ securityLog[1].identifier = HelloWorld

----------------------------------------------------------------------------
(* The client identifier: requests that give their address through          *)
(* X-Forwarded-For, through X-Real-IP, through the connection or not at all, *)
(* and that pass the gate or fail one of its stages                          *)

IpC == <<"3", ".", "3">>

\* the headers and the connection address of a request
ClientAddresses ==
  { [forwarded |-> Some(<<" ">> \o IpC \o <<" ", ",", " ">> \o IpA),
     realIp |-> Some(IpB), ip |-> Some(IpA)],
    [forwarded |-> Some(<< >>), realIp |-> Some(IpB), ip |-> Some(IpA)],
    [forwarded |-> None, realIp |-> Some(IpB), ip |-> Some(IpA)],
    [forwarded |-> None, realIp |-> None, ip |-> Some(IpA)],
    [forwarded |-> None, realIp |-> None, ip |-> None] }

ClientRequests ==
  { [q EXCEPT !.forwarded = a.forwarded, !.realIp = a.realIp, !.ip = a.ip] :
      q \in { Request(McpPrefix, None, Some(BearerPrefix \o ApiKey), None),
              Request(McpPrefix, Some(OriginEvil), None, None),
              Request(McpPrefix, None, Some(BearerPrefix \o WrongKey), None) },
      a \in ClientAddresses }

InitClient ==
  /\ now = 0
  /\ rateLimitMap = << >>
  /\ securityLog = << >>
  /\ lastIndex = [k \in 1..5 |-> 0]
  /\ config \in {c \in ConcConfigs : c.maxRequestsPerMinute = 1}
  /\ req = [r \in Slots |-> IdleRequest]
  /\ draft = << >>
  /\ proc = Serving
  /\ snapshot = << >>
  /\ hist = << >>
  /\ last = NoOp
  /\ steps = 0

NextClient ==
  \/ \E q \in ClientRequests : Arrive("r1", q, MaxClient)
  \/ CspStage("r1")
  \/ LoggingStage("r1")
  \/ CorsStage("r1")
  \/ RateStage("r1")
  \/ AuthStage("r1")
  \/ Dispatch("r1")

SpecClient == InitClient /\ [][NextClient]_vars

\* the part of s before its first comma
FirstElement(s) ==
  LET commas == {i \in 1..Len(s) : s[i] = ","}
  IN IF commas = {} THEN s
     ELSE SubSeq(s, 1, (CHOOSE i \in commas : \A j \in commas : i <= j) - 1)

\* the identifier by the priority X-Forwarded-For, X-Real-IP, connection
\* address, 'unknown'
Resolved(q) ==
  IF q.forwarded # << >> THEN Trimmed(FirstElement(q.forwarded[1]))
  ELSE IF q.realIp # << >> THEN q.realIp[1]
  ELSE IF q.ip # << >> THEN q.ip[1]
  ELSE <<"u", "n", "k", "n", "o", "w", "n">>

\* C38: every stage of a request uses the identifier resolved by that
\* priority: the event a stage appends carries it, the RateLimiter stage
\* decides on the entry of that identifier and changes no other entry, so
\* requests that resolve to different identifiers never share a counter.
C38_ClientIdentifier ==
  [][\A r \in Slots :
       LET q == req[r]
           id == Resolved(q)
           spent == /\ id \in DOMAIN rateLimitMap
                    /\ now <= rateLimitMap[id].resetTime
                    /\ rateLimitMap[id].count >= config.maxRequestsPerMinute
       IN /\ (StageStep(r) /\ securityLog' # securityLog) =>
               securityLog'[Len(securityLog')].identifier = id
          /\ RateStep(r) =>
               /\ req'[r].status = 429 <=> spent
               /\ ~spent => /\ id \in DOMAIN rateLimitMap'
                            /\ rateLimitMap'[id].count =
                                 IF id \in DOMAIN rateLimitMap
                                   THEN rateLimitMap[id].count + 1 ELSE 1
               /\ \A other \in DOMAIN rateLimitMap' \ {id} :
                    /\ other \in DOMAIN rateLimitMap
                    /\ rateLimitMap'[other] = rateLimitMap[other]]_vars

\* a request named by X-Forwarded-For and a request named by X-Real-IP, from
\* the same connection address, were both served with a limit of 1: each has
\* the counter of its own identifier
C38_Witness ==
  /\ DOMAIN rateLimitMap = {IpC, IpB}
  /\ rateLimitMap[IpC].count = 1 /\ rateLimitMap[IpB].count = 1
  /\ req["r1"].forwarded = << >> /\ req["r1"].realIp = <<IpB>> /\ req["r1"].ip = <<IpA>>
  /\ req["r1"].status = 200

====
